---- MODULE Spec2Model ----
(***************************************************************************)
(* Model of the website chatbot:                                           *)
(*   vector_store.py  clean_and_normalize_text, semantic_text_splitting,   *)
(*                    process_text, create_faiss_index,                    *)
(*                    search_similar_chunks                                *)
(*   llm_utils.py     get_embeddings                                       *)
(*   database.py      get_engine and the functions on the tables           *)
(*   app.py           the handlers of one browser session                  *)
(* Each part has its own specification: SpecText, SpecSearch, SpecBuild,   *)
(* SpecDb and Spec (the app).                                              *)
(*                                                                         *)
(* A Python str is modelled as a sequence of characters, each character a  *)
(* TLA+ string: "a" (a letter), "." (sentence punctuation), " " and "\n"   *)
(* (whitespace), "en" and "em" (the en dash U+2013 and the em dash U+2014) *)
(* and "-" (the ASCII hyphen).  Python's None is the value None below.     *)
(***************************************************************************)
EXTENDS Integers, Sequences, FiniteSets, TLC

VARIABLES
    \* ---- text pipeline (vector_store.py 11-139) ----
    text,            \* the argument `text` of the function under call
    chunk_size,      \* the argument chunk_size of process_text
    chunk_overlap,   \* the argument chunk_overlap of process_text
    op,              \* which function was called: "none" before the call
    cleaned_text,    \* clean_and_normalize_text's return value / process_text's local
    semantic_chunks, \* semantic_text_splitting's return value / process_text's local
    path,            \* the branch process_text returned from
    chunks,          \* process_text's return value
    \* ---- similarity search (vector_store.py 167-215) ----
    index,           \* the FAISS index: the sequence of stored vectors
    query_embedding, \* the argument query_embedding
    k,               \* the argument k
    distance_threshold, \* the argument distance_threshold
    sop,             \* "none" before the call, "returned" after it
    searched,        \* number of index.search calls made by the call
    raw_indices,     \* indices[0] as returned by index.search
    raw_distances,   \* distances[0] as returned by index.search
    filtered_indices,   \* first component of the return value
    filtered_distances, \* second component of the return value
    \* ---- index construction (vector_store.py 141-165, llm_utils.py 18-39) ----
    b_chunks,        \* the argument `chunks` of create_faiss_index
    b_pc,            \* "idle", "called" (in the loop), "returned" or "raised"
    embeddings,      \* the local list `embeddings`
    gateway_calls,   \* the get_embeddings calls made: [text, result] in call order
    b_error,         \* the exception create_faiss_index raised, "none" if none
    b_added,         \* number of vectors index.add was given
    \* ---- database.py: get_engine (20-39) ----
    e_pc,            \* "idle", "connecting", "returned", "returned_none" or "raised"
    e_attempt,       \* the loop variable `attempt`
    e_log,           \* the connection attempts and sleeps made, in order
    e_error,         \* the exception get_engine raised, "none" if none
    \* ---- database.py: the tables and the calls on them (129-258) ----
    websites,        \* table websites in id order: row i has id i
    content_chunks,  \* table content_chunks in insertion order
    store_txn,       \* per thread: the open transaction of its
                     \* store_website_chunks call, between the DELETE of
                     \* line 161 and the commit of line 172
    db_call,         \* the last database function called and what it did;
                     \* result is what a read returned, or the chunks a
                     \* store had inserted when it ended; committed says
                     \* whether it changed the tables
    last_stored,     \* per website id: the list of the last committed
                     \* store_website_chunks, and whether that call
                     \* returned normally (stored)
    chat_sessions,   \* table chat_sessions in id order: row i has id i
    chat_messages,   \* table chat_messages in commit order, each row with
                     \* its created_at
    \* ---- app.py: st.session_state (21-44, 207-210) ----
    chatbot_ready,
    st_index,        \* st.session_state.index
    st_chunks,       \* st.session_state.chunks
    website_url,
    website_id,      \* 0 stands for None
    chat_session_id, \* 0 stands for None
    chat_history,    \* list of <<role, message>>
    current_query,
    response_generated,
    app_event,       \* how the last script run that handled an input ended:
                     \* "running" while it is under way, "create_stopped"
                     \* "generate_stopped", "switch_stopped",
                     \* "type_stopped" or "reset_stopped" when it was
                     \* stopped, "exception" when an exception that
                     \* nothing caught ended it
    run,             \* the script run that is handling a click: where it is
                     \* (pc) and its locals; pc = "idle" between runs
    others,          \* number of database calls other browser sessions made
    msg_call,        \* the add_chat_message call of the last step of the
                     \* browser session, if it made one: the role written,
                     \* whether a SQLAlchemyError came up in the call
                     \* (error), whether the row is in the table (committed)
                     \* and whether the call raised to the handler (raised)
    submission       \* history variable, for the question in current_query
                     \* since the text was last changed: the chat sessions
                     \* in which the handler stored the user message
                     \* (stored), and whether it appended a reply to
                     \* chat_history (replied)

textVars == <<text, chunk_size, chunk_overlap, op, cleaned_text, semantic_chunks,
              path, chunks>>
searchVars == <<index, query_embedding, k, distance_threshold, sop, searched,
                raw_indices, raw_distances, filtered_indices, filtered_distances>>
buildVars == <<b_chunks, b_pc, embeddings, gateway_calls, b_error, b_added>>
engineVars == <<e_pc, e_attempt, e_log, e_error>>
dbVars == <<websites, content_chunks, store_txn, db_call, last_stored>>
chatVars == <<chat_sessions, chat_messages>>
appVars == <<chatbot_ready, st_index, st_chunks, website_url, website_id,
             chat_session_id, chat_history, current_query, response_generated,
             app_event, run, others, msg_call, submission>>
vars == <<textVars, searchVars, buildVars, engineVars, dbVars, chatVars, appVars>>

\* what the functions of one part leave alone
exceptText == <<searchVars, buildVars, engineVars, dbVars, chatVars, appVars>>
exceptSearch == <<textVars, buildVars, engineVars, dbVars, chatVars, appVars>>
exceptBuild == <<textVars, query_embedding, k, distance_threshold, sop, searched,
                 raw_indices, raw_distances, filtered_indices, filtered_distances,
                 engineVars, dbVars, chatVars, appVars>>
exceptDb == <<textVars, searchVars, buildVars, chatVars, appVars>>
exceptApp == <<textVars, searchVars, buildVars, engineVars, db_call, last_stored>>

(***************************************************************************)
(* Characters and strings                                                  *)
(***************************************************************************)
None == <<"None">>                 \* Python's None passed where a str is expected

\* `not text` for a str-or-None argument
Falsy(t) == t = None \/ Len(t) = 0

\* the characters regex \s and str.strip() treat as whitespace
IsSpace(c) == c \in {" ", "\n", "\t"}

\* the characters of the class [.!?]
IsTerminal(c) == c \in {".", "!", "?"}

\* Python slice t[i:j] for 0 <= i, 0 <= j (0-based, end exclusive, clamped)
Slice(t, i, j) ==
    LET hi == IF j < Len(t) THEN j ELSE Len(t)
    IN  IF i >= hi THEN <<>> ELSE SubSeq(t, i + 1, hi)

\* sep.join(parts)
RECURSIVE Join(_, _)
Join(parts, sep) ==
    IF Len(parts) = 0 THEN <<>>
    ELSE IF Len(parts) = 1 THEN parts[1]
    ELSE parts[1] \o sep \o Join(Tail(parts), sep)

(***************************************************************************)
(* The four regular expressions of vector_store.py, matched as Python's re *)
(* matches them: leftmost first, each match as long as its greedy          *)
(* quantifier allows, matches not overlapping.                             *)
(*   "blank"  \n\s*\n          (lines 25 and 49)                           *)
(*   "ws"     \s+              (line 28)                                   *)
(*   "nl"     \n               (line 55)                                   *)
(*   "sent"   (?<=[.!?])\s+    (line 65)                                   *)
(***************************************************************************)

\* last index of the whitespace run that holds index i (t[i] is whitespace)
RECURSIVE WsEnd(_, _)
WsEnd(t, i) == IF i < Len(t) /\ IsSpace(t[i + 1]) THEN WsEnd(t, i + 1) ELSE i

\* greatest index j in lo..hi with t[j] = "\n", 0 when there is none
RECURSIVE LastNewline(_, _, _)
LastNewline(t, lo, hi) ==
    IF hi < lo THEN 0
    ELSE IF t[hi] = "\n" THEN hi
    ELSE LastNewline(t, lo, hi - 1)

\* index of the last character of the match of re that starts at index i,
\* 0 when re does not match at i
MatchEnd(re, t, i) ==
    CASE re = "blank" -> IF t[i] = "\n" THEN LastNewline(t, i + 1, WsEnd(t, i)) ELSE 0
      [] re = "ws"    -> IF IsSpace(t[i]) THEN WsEnd(t, i) ELSE 0
      [] re = "nl"    -> IF t[i] = "\n" THEN i ELSE 0
      [] re = "sent"  -> IF i > 1 /\ IsTerminal(t[i - 1]) /\ IsSpace(t[i])
                         THEN WsEnd(t, i) ELSE 0

\* the elements of a finite set of integers in increasing order
RECURSIVE Ascending(_)
Ascending(S) ==
    IF S = {} THEN <<>>
    ELSE LET m == CHOOSE x \in S : \A y \in S : x <= y
         IN  <<m>> \o Ascending(S \ {m})

\* every <<start, end>> at which re matches in t, by increasing start; each of
\* the four patterns consumes a whitespace character first, so a match can
\* start at a whitespace character only
Candidates(re, t) ==
    LET starts == Ascending({i \in 1..Len(t) : IsSpace(t[i]) /\ MatchEnd(re, t, i) > 0})
    IN  [j \in 1..Len(starts) |-> <<starts[j], MatchEnd(re, t, starts[j])>>]

\* the scan of re.sub / re.split: a candidate is a match unless an earlier
\* match has consumed its first character
RECURSIVE NonOverlapping(_, _)
NonOverlapping(cands, from) ==
    IF Len(cands) = 0 THEN <<>>
    ELSE IF cands[1][1] < from THEN NonOverlapping(Tail(cands), from)
    ELSE <<cands[1]>> \o NonOverlapping(Tail(cands), cands[1][2] + 1)

Matches(re, t) == NonOverlapping(Candidates(re, t), 1)

\* the substrings of t between the matches ms, from index `from` on
RECURSIVE Pieces(_, _, _)
Pieces(t, ms, from) ==
    IF Len(ms) = 0 THEN << Slice(t, from - 1, Len(t)) >>
    ELSE << Slice(t, from - 1, ms[1][1] - 1) >> \o Pieces(t, Tail(ms), ms[1][2] + 1)

\* re.split(re, t), for a pattern without capture groups
ReSplit(re, t) == Pieces(t, Matches(re, t), 1)

\* re.sub(re, repl, t), for a literal replacement
ReSub(re, repl, t) == Join(ReSplit(re, t), repl)

\* ReplaceDashes putting a space on either side of the hyphen
ReplaceDashesSpaced(t) ==
    LET at == Ascending({i \in 1..Len(t) : t[i] \in {"en", "em"}})
    IN  Join(Pieces(t, [j \in 1..Len(at) |-> <<at[j], at[j]>>], 1), <<" ", "-", " ">>)

\* text.replace(en dash, '-').replace(em dash, '-')
ReplaceDashes(t) == [i \in 1..Len(t) |-> IF t[i] \in {"en", "em"} THEN "-" ELSE t[i]]

\* str.strip()
RECURSIVE LeadingSpaces(_, _)
LeadingSpaces(t, i) ==
    IF i <= Len(t) /\ IsSpace(t[i]) THEN LeadingSpaces(t, i + 1) ELSE i - 1
RECURSIVE TrailingSpaces(_, _)
TrailingSpaces(t, i) ==
    IF i >= 1 /\ IsSpace(t[i]) THEN TrailingSpaces(t, i - 1) ELSE Len(t) - i
Strip(t) ==
    LET a == LeadingSpaces(t, 1)
        b == TrailingSpaces(t, Len(t))
    IN  IF a = Len(t) THEN <<>> ELSE SubSeq(t, a + 1, Len(t) - b)

(***************************************************************************)
(* clean_and_normalize_text (vector_store.py 11-33)                        *)
(***************************************************************************)
clean_and_normalize_text(t) ==
    IF Falsy(t) THEN <<>>
    ELSE LET t1 == ReSub("blank", <<"\n">>, t)      \* line 25
             t2 == ReSub("ws", <<" ">>, t1)         \* line 28
             t3 == ReplaceDashes(t2)                \* line 31
         IN  Strip(t3)                              \* line 33

(***************************************************************************)
(* semantic_text_splitting (vector_store.py 35-85)                         *)
(***************************************************************************)
MaxSectionLen == 1500        \* the literal 1500 of lines 54, 63 and 70
MinChunkLen == 50            \* the literal 50 of lines 85, 122 and 135

\* lines 52-58: sections longer than 1500 are split on single newlines
RECURSIVE RefineSections(_)
RefineSections(sections) ==
    IF Len(sections) = 0 THEN <<>>
    ELSE (IF Len(sections[1]) > MaxSectionLen
          THEN ReSplit("nl", sections[1])
          ELSE <<sections[1]>>) \o RefineSections(Tail(sections))

\* GroupSentences with <= for < in line 70
RECURSIVE GroupSentencesInclusive(_, _)
GroupSentencesInclusive(sentences, current) ==
    IF Len(sentences) = 0
    THEN (IF Len(current) > 0 THEN <<current>> ELSE <<>>)
    ELSE LET sentence == sentences[1]
         IN  IF Len(current) + Len(sentence) <= MaxSectionLen
             THEN GroupSentencesInclusive(Tail(sentences),
                                 IF Len(current) > 0 THEN current \o <<" ">> \o sentence
                                                     ELSE sentence)
             ELSE <<current>> \o GroupSentencesInclusive(Tail(sentences), sentence)

\* GroupSentences without `current_chunk = sentence` in the else branch (line 77)
RECURSIVE GroupSentencesForgetful(_, _)
GroupSentencesForgetful(sentences, current) ==
    IF Len(sentences) = 0
    THEN (IF Len(current) > 0 THEN <<current>> ELSE <<>>)
    ELSE LET sentence == sentences[1]
         IN  IF Len(current) + Len(sentence) < MaxSectionLen
             THEN GroupSentencesForgetful(Tail(sentences),
                                 IF Len(current) > 0 THEN current \o <<" ">> \o sentence
                                                     ELSE sentence)
             ELSE <<current>> \o GroupSentencesForgetful(Tail(sentences), <<>>)

\* lines 68-80: the greedy grouping of sentences; `current` is current_chunk,
\* the result is what the loop and the trailing `if current_chunk` append
RECURSIVE GroupSentences(_, _)
GroupSentences(sentences, current) ==
    IF Len(sentences) = 0
    THEN (IF Len(current) > 0 THEN <<current>> ELSE <<>>)
    ELSE LET sentence == sentences[1]
         IN  IF Len(current) + Len(sentence) < MaxSectionLen
             THEN GroupSentences(Tail(sentences),
                                 IF Len(current) > 0 THEN current \o <<" ">> \o sentence
                                                     ELSE sentence)
             ELSE <<current>> \o GroupSentences(Tail(sentences), sentence)

\* lines 61-82: sections still longer than 1500 are split into sentence groups
RECURSIVE SplitLongSections(_)
SplitLongSections(refined) ==
    IF Len(refined) = 0 THEN <<>>
    ELSE (IF Len(refined[1]) > MaxSectionLen
          THEN GroupSentences(ReSplit("sent", refined[1]), <<>>)
          ELSE <<refined[1]>>) \o SplitLongSections(Tail(refined))

\* line 85: the sections whose stripped length exceeds 50
KeepSection(section) == Len(Strip(section)) > MinChunkLen

semantic_text_splitting(t) ==
    IF Falsy(t) THEN <<>>
    ELSE LET sections == ReSplit("blank", t)                 \* line 49
             refined_sections == RefineSections(sections)    \* lines 52-58
             final_sections == SplitLongSections(refined_sections)
         IN  SelectSeq(final_sections, KeepSection)

(***************************************************************************)
(* process_text (vector_store.py 87-139)                                   *)
(***************************************************************************)
DefaultChunkSize == 1000     \* chunk_size: int = 1000
DefaultChunkOverlap == 250   \* chunk_overlap: int = 250
ResplitMargin == 500         \* the literal 500 of line 118

\* SlidingWindow without the length test of lines 122 and 135
RECURSIVE SlidingWindowNoFilter(_, _, _, _)
SlidingWindowNoFilter(t, i, size, step) ==
    IF i >= Len(t) THEN <<>>
    ELSE <<Slice(t, i, i + size)>> \o SlidingWindowNoFilter(t, i + step, size, step)

\* SlidingWindow keeping full-sized windows only
RECURSIVE SlidingWindowFullOnly(_, _, _, _)
SlidingWindowFullOnly(t, i, size, step) ==
    IF i + size > Len(t) THEN <<>>
    ELSE (IF size > MinChunkLen THEN <<Slice(t, i, i + size)>> ELSE <<>>)
         \o SlidingWindowFullOnly(t, i + step, size, step)

\* SlidingWindow advancing by the window size, so that windows do not overlap
RECURSIVE SlidingWindowDisjoint(_, _, _, _)
SlidingWindowDisjoint(t, i, size, step) ==
    IF i >= Len(t) THEN <<>>
    ELSE LET sub_chunk == Slice(t, i, i + size)
         IN  (IF Len(sub_chunk) > MinChunkLen THEN <<sub_chunk>> ELSE <<>>)
             \o SlidingWindowDisjoint(t, i + size, size, step)

\* for i in range(i, len(t), step): t[i:i + size], kept when longer than 50
\* (lines 120-123 and 133-136); step > 0
RECURSIVE SlidingWindow(_, _, _, _)
SlidingWindow(t, i, size, step) ==
    IF i >= Len(t) THEN <<>>
    ELSE LET sub_chunk == Slice(t, i, i + size)
         IN  (IF Len(sub_chunk) > MinChunkLen THEN <<sub_chunk>> ELSE <<>>)
             \o SlidingWindow(t, i + step, size, step)

\* ResplitLong passing every semantic chunk through
ResplitLongNever(cs, size, overlap) == cs

\* lines 116-125: chunks much longer than the target are re-split
RECURSIVE ResplitLong(_, _, _)
ResplitLong(cs, size, overlap) ==
    IF Len(cs) = 0 THEN <<>>
    ELSE (IF Len(cs[1]) > size + ResplitMargin
          THEN SlidingWindow(cs[1], 0, size, size - overlap)
          ELSE <<cs[1]>>) \o ResplitLong(Tail(cs), size, overlap)

\* process_text with >= 3 for > 3 in line 112
process_textFrom3(t, size, overlap) ==
    IF Falsy(t)
    THEN [path |-> "empty", cleaned_text |-> <<>>, semantic_chunks |-> <<>>,
          chunks |-> <<>>]
    ELSE LET cleaned == clean_and_normalize_text(t)
             semantic == semantic_text_splitting(cleaned)
         IN  IF Len(semantic) >= 3
             THEN [path |-> "semantic", cleaned_text |-> cleaned,
                   semantic_chunks |-> semantic,
                   chunks |-> ResplitLong(semantic, size, overlap)]
             ELSE [path |-> "fallback", cleaned_text |-> cleaned,
                   semantic_chunks |-> semantic,
                   chunks |-> SlidingWindow(cleaned, 0, size, size - overlap)]

\* the return value of process_text with the locals it computed on the way:
\* path is "empty" (line 101), "semantic" (line 128) or "fallback" (line 139)
process_text(t, size, overlap) ==
    IF Falsy(t)
    THEN [path |-> "empty", cleaned_text |-> <<>>, semantic_chunks |-> <<>>,
          chunks |-> <<>>]
    ELSE LET cleaned == clean_and_normalize_text(t)          \* line 106
             semantic == semantic_text_splitting(cleaned)    \* line 109
         IN  IF Len(semantic) > 3                            \* line 112
             THEN [path |-> "semantic", cleaned_text |-> cleaned,
                   semantic_chunks |-> semantic,
                   chunks |-> ResplitLong(semantic, size, overlap)]
             ELSE [path |-> "fallback", cleaned_text |-> cleaned,
                   semantic_chunks |-> semantic,
                   chunks |-> SlidingWindow(cleaned, 0, size, size - overlap)]

(***************************************************************************)
(* search_similar_chunks (vector_store.py 167-215)                         *)
(*                                                                         *)
(* A vector is a tuple of integers, the index the sequence of the vectors  *)
(* added to it (row i of the matrix is index[i + 1], ordinals are 0-based  *)
(* as in Python).  faiss.IndexFlatL2 compares by squared Euclidean         *)
(* distance.                                                               *)
(***************************************************************************)
Min(a, b) == IF a < b THEN a ELSE b

\* IndexFlatL2's metric: the squared L2 distance of two vectors
RECURSIVE L2(_, _)
L2(u, v) ==
    IF Len(u) = 0 THEN 0
    ELSE (u[1] - v[1]) * (u[1] - v[1]) + L2(Tail(u), Tail(v))

\* index.ntotal
ntotal(idx) == Len(idx)

\* the sequences of n distinct ordinals of the index
RECURSIVE Arrangements(_, _)
Arrangements(S, n) ==
    IF n = 0 THEN {<<>>}
    ELSE UNION {{<<x>> \o r : r \in Arrangements(S \ {x}, n - 1)} : x \in S}

\* IndexSearch returning n nearest vectors in any order
IndexSearchUnsorted(idx, q, n) ==
    {r \in Arrangements(0..(Len(idx) - 1), n) :
        \A o \in 0..(Len(idx) - 1) :
            (\A i \in 1..n : r[i] # o)
                => \A i \in 1..n : L2(idx[o + 1], q) >= L2(idx[r[i] + 1], q)}

\* index.search(query, n), 1 <= n <= ntotal: the ordinals of n nearest
\* vectors by ascending distance.  Vectors at equal distance come in an order
\* the library does not document: every such order is a possible outcome.
IndexSearch(idx, q, n) ==
    {r \in Arrangements(0..(Len(idx) - 1), n) :
        /\ \A i \in 1..(n - 1) : L2(idx[r[i] + 1], q) <= L2(idx[r[i + 1] + 1], q)
        /\ \A o \in 0..(Len(idx) - 1) :
              (\A i \in 1..n : r[i] # o) => L2(idx[o + 1], q) >= L2(idx[r[n] + 1], q)}

\* FilterLoop with <= for < in line 202
RECURSIVE FilterLoopInclusive(_, _, _, _, _)
FilterLoopInclusive(dists, i, kk, threshold, kept) ==
    IF i > Len(dists) THEN kept
    ELSE IF Len(kept) >= kk THEN kept
    ELSE IF dists[i] <= threshold
         THEN FilterLoopInclusive(dists, i + 1, kk, threshold, Append(kept, i))
         ELSE FilterLoopInclusive(dists, i + 1, kk, threshold, kept)

\* FilterLoop without the test of line 198
RECURSIVE FilterLoopUncapped(_, _, _, _, _)
FilterLoopUncapped(dists, i, kk, threshold, kept) ==
    IF i > Len(dists) THEN kept
    ELSE IF dists[i] < threshold
         THEN FilterLoopUncapped(dists, i + 1, kk, threshold, Append(kept, i))
         ELSE FilterLoopUncapped(dists, i + 1, kk, threshold, kept)

\* lines 194-204: the loop over zip(indices[0], distances[0]); `kept` is
\* filtered_indices so far, the result the positions (1-based) of the
\* candidates appended
RECURSIVE FilterLoop(_, _, _, _, _)
FilterLoop(dists, i, kk, threshold, kept) ==
    IF i > Len(dists) THEN kept
    ELSE IF Len(kept) >= kk THEN kept                               \* line 198
    ELSE IF dists[i] < threshold                                    \* line 202
         THEN FilterLoop(dists, i + 1, kk, threshold, Append(kept, i))
         ELSE FilterLoop(dists, i + 1, kk, threshold, kept)

\* FilterResults without the fallback of lines 209-213
FilterResultsNoFallback(inds, dists, kk, threshold) ==
    LET pos == FilterLoop(dists, 1, kk, threshold, <<>>)
    IN  <<[j \in 1..Len(pos) |-> inds[pos[j]]], [j \in 1..Len(pos) |-> dists[pos[j]]]>>

\* lines 193-215 on the search result (inds, dists): the returned pair
FilterResults(inds, dists, kk, threshold) ==
    LET pos == FilterLoop(dists, 1, kk, threshold, <<>>)
    IN  IF Len(pos) = 0 /\ Len(inds) > 0                            \* line 209
        THEN LET top_k == Min(kk, Len(inds))                        \* line 211
             IN  <<SubSeq(inds, 1, top_k), SubSeq(dists, 1, top_k)>>
        ELSE <<[j \in 1..Len(pos) |-> inds[pos[j]]],
               [j \in 1..Len(pos) |-> dists[pos[j]]]>>

\* KSearch without the factor k * 2 and the cap by k
KSearchAll(idx, kk) == ntotal(idx)

\* line 185
KSearch(idx, kk) == Min(kk * 2, ntotal(idx))

(***************************************************************************)
(* Inputs of the text pipeline                                             *)
(***************************************************************************)
MaxParts == 5                \* most blocks of one length in an input text
MaxTextLen == 4900           \* most letters in an input text

\* a run of n letters: a paragraph, line or sentence without inner whitespace
Block(n) == [i \in 1..n |-> "a"]

\* block lengths, around the literals 50 and 1500 (749 + 1 + 750 = 1500)
BlockLens == {40, 50, 51, 300, 749, 800, 1499, 1500, 1501, 1600, 2240, 3000}

\* what stands between two blocks: blank lines, a blank line holding
\* whitespace, a single newline, a sentence end, spaces, a dash
Separators ==
    { <<"\n", "\n">>, <<" ", "\n", " ", "\t", "\n", "\n">>, <<"\n">>,
      <<".", " ">>, <<"?", " ", "\n">>, <<" ", "en", " ", " ">> }

\* head: the length of a leading block (0: none); n blocks of len letters
\* follow, sep between any two blocks; pad: whitespace around the whole
TextOf(head, n, len, sep, pad) ==
    LET body == Join([i \in 1..n |-> Block(len)], sep)
        all == IF head = 0 THEN body ELSE Block(head) \o sep \o body
    IN  IF pad THEN <<" ">> \o all \o <<"\n">> ELSE all

HeadLens == {0, 40, 1600}

\* <<n, len>>: n blocks of len letters each
Shapes == {sh \in (1..MaxParts) \X BlockLens : sh[1] * sh[2] <= MaxTextLen}

Inputs ==
    {None, <<>>, <<" ", "\n">>} \cup
    {TextOf(h, sh[1], sh[2], s, p) :
        h \in HeadLens, sh \in Shapes, s \in Separators, p \in BOOLEAN}

\* the (chunk_size, chunk_overlap) pairs process_text is called with
Params == { <<DefaultChunkSize, DefaultChunkOverlap>>, <<400, 150>> }

(***************************************************************************)
(* The calls                                                               *)
(***************************************************************************)
TextIdle ==
    /\ op = "none" /\ chunk_size = 0 /\ chunk_overlap = 0
    /\ cleaned_text = <<>> /\ semantic_chunks = <<>> /\ path = "none"
    /\ chunks = <<>>

SearchIdle ==
    /\ query_embedding = <<>> /\ k = 0 /\ distance_threshold = 0
    /\ sop = "none" /\ searched = 0
    /\ raw_indices = <<>> /\ raw_distances = <<>>
    /\ filtered_indices = <<>> /\ filtered_distances = <<>>

\* create_faiss_index is not running; pcv says whether it ever returned
BuildIdle(pcv) ==
    /\ b_chunks = <<>> /\ b_pc = pcv /\ embeddings = <<>>
    /\ gateway_calls = <<>> /\ b_error = "none" /\ b_added = 0

\* the url the users of the app enter
Urls == {"u1"}

\* the threads that call the database, each with its own scoped session
\* (database.py 42-43); in the app "t1" runs the scripts of the browser
\* session under study, "t2" those of the other browser sessions
Threads == {"t1", "t2"}

\* a thread is not inside store_website_chunks
NoTxn == [open |-> FALSE, website_id |-> 0, chunks |-> <<>>, deleted |-> {}]

\* no script of the browser session is running
NoRun ==
    [pc |-> "idle", url |-> "", website_id |-> 0, chunks |-> <<>>,
     chat_session_id |-> 0, created |-> FALSE, existing |-> FALSE]

\* no database function has been called
NoCall ==
    [fn |-> "none", website_id |-> 0, raised |-> FALSE, result |-> <<>>,
     committed |-> FALSE]

\* nothing has been stored for a website
NeverStored == [stored |-> FALSE, cur |-> <<>>]

\* st.session_state.index = None
NoIndex == [built |-> FALSE, rows |-> <<>>]

\* the session state of lines 21-44 and 207-210, no input handled yet
NothingAppended == [stored |-> {}, replied |-> FALSE]

\* the last step of the browser session did not call add_chat_message
NoWrite ==
    [role |-> "none", error |-> FALSE, committed |-> FALSE, raised |-> FALSE]

AppIdle ==
    /\ chatbot_ready = FALSE /\ st_index = NoIndex /\ st_chunks = <<>>
    /\ website_url = "" /\ website_id = 0 /\ chat_session_id = 0
    /\ chat_history = <<>> /\ current_query = "" /\ response_generated = FALSE
    /\ app_event = "none" /\ submission = NothingAppended
    /\ msg_call = NoWrite
    /\ run = NoRun /\ others = 0

\* the tables are empty and no database function has been called
TablesEmpty ==
    /\ websites = <<>> /\ content_chunks = <<>> /\ db_call = NoCall
    /\ store_txn = [t \in Threads |-> NoTxn]
    /\ last_stored = [w \in 1..Cardinality(Urls) |-> NeverStored]
    /\ chat_sessions = <<>> /\ chat_messages = <<>>

\* database.py has not been imported and app.py is not running
DbIdle ==
    /\ e_pc = "idle" /\ e_attempt = 0 /\ e_log = <<>> /\ e_error = "none"
    /\ TablesEmpty /\ AppIdle

\* a caller evaluates clean_and_normalize_text(text)
CleanAndNormalizeText ==
    /\ op = "none"
    /\ op' = "clean"
    /\ cleaned_text' = clean_and_normalize_text(text)
    /\ UNCHANGED <<text, chunk_size, chunk_overlap, semantic_chunks, path, chunks>>
    /\ UNCHANGED exceptText

\* a caller evaluates semantic_text_splitting(text)
SemanticTextSplitting ==
    /\ op = "none"
    /\ op' = "split"
    /\ semantic_chunks' = semantic_text_splitting(text)
    /\ UNCHANGED <<text, chunk_size, chunk_overlap, cleaned_text, path, chunks>>
    /\ UNCHANGED exceptText

\* a caller evaluates process_text(text, size, overlap)
ProcessText ==
    /\ op = "none"
    /\ \E p \in Params :
          LET r == process_text(text, p[1], p[2])
          IN  /\ op' = "process"
              /\ chunk_size' = p[1]
              /\ chunk_overlap' = p[2]
              /\ cleaned_text' = r.cleaned_text
              /\ semantic_chunks' = r.semantic_chunks
              /\ path' = r.path
              /\ chunks' = r.chunks
    /\ UNCHANGED text
    /\ UNCHANGED exceptText

\* a caller normalizes text that clean_and_normalize_text returned
NormalizeAgain ==
    /\ op = "clean"
    /\ op' = "clean2"
    /\ text' = cleaned_text
    /\ cleaned_text' = clean_and_normalize_text(cleaned_text)
    /\ UNCHANGED <<chunk_size, chunk_overlap, semantic_chunks, path, chunks>>
    /\ UNCHANGED exceptText

InitText ==
    /\ text \in Inputs /\ TextIdle /\ index = <<>> /\ SearchIdle
    /\ BuildIdle("idle") /\ DbIdle

NextText ==
    CleanAndNormalizeText \/ NormalizeAgain \/ SemanticTextSplitting \/ ProcessText

SpecText == InitText /\ [][NextText]_vars

(***************************************************************************)
(* Inputs of the similarity search                                         *)
(***************************************************************************)
MaxN == 3                    \* most vectors in the index
MaxCoord == 3                \* greatest coordinate of a vector
MaxK == 3                    \* greatest k

\* embeddings of one dimension (all vectors of an index share it)
Vectors == {<<x>> : x \in 0..MaxCoord}

\* the values response.data[0].embedding can take: two embeddings of one
\* dimension and one of another
EmbedVectors == {<<0>>, <<1>>, <<0, 1>>}

\* the query embeddings an index can be searched with: index.search accepts
\* only a query of the index's dimension
QueriesFor(idx) ==
    {q \in Vectors \cup EmbedVectors : idx = <<>> \/ Len(q) = Len(idx[1])}

\* the indexes create_faiss_index can return, and the empty index
Indexes == UNION {[1..n -> Vectors] : n \in 0..MaxN}

\* distance thresholds: below every distance (0), between distances, above all
Thresholds == {0, 1, 2, 5, 100}

\* search_similar_chunks(index, q, kk, threshold)
SearchSimilarChunks ==
    \E q \in QueriesFor(index), kk \in 0..MaxK, threshold \in Thresholds :
        LET k_search == KSearch(index, kk)                          \* line 185
        IN  /\ sop = "none"
            /\ b_pc \in {"idle", "returned"}    \* the caller holds an index
            /\ query_embedding' = q
            /\ k' = kk
            /\ distance_threshold' = threshold
            /\ sop' = "returned"
            /\ IF k_search = 0                                      \* line 186
               THEN /\ searched' = 0
                    /\ raw_indices' = <<>>
                    /\ raw_distances' = <<>>
                    /\ filtered_indices' = <<>>                     \* line 188
                    /\ filtered_distances' = <<>>
               ELSE \E r \in IndexSearch(index, q, k_search) :      \* line 191
                      LET d == [i \in 1..Len(r) |-> L2(index[r[i] + 1], q)]
                          res == FilterResults(r, d, kk, threshold)
                      IN  /\ searched' = 1
                          /\ raw_indices' = r
                          /\ raw_distances' = d
                          /\ filtered_indices' = res[1]
                          /\ filtered_distances' = res[2]
            /\ UNCHANGED index
            /\ UNCHANGED exceptSearch

InitSearch ==
    /\ text = <<>> /\ TextIdle /\ index \in Indexes /\ SearchIdle
    /\ BuildIdle("idle") /\ DbIdle

NextSearch == SearchSimilarChunks

SpecSearch == InitSearch /\ [][NextSearch]_vars

(***************************************************************************)
(* create_faiss_index (vector_store.py 141-165) and the embedding gateway  *)
(* get_embeddings (llm_utils.py 18-39)                                     *)
(***************************************************************************)
\* the outcome of a get_embeddings call that raised: the exception of
\* client.embeddings.create, re-raised at line 39
GatewayError == [ok |-> FALSE, embedding |-> <<>>]

\* get_embeddings(t): the embedding the service answers with (line 36), or
\* the exception re-raised at line 39; the service decides which
get_embeddings(t) ==
    {[ok |-> TRUE, embedding |-> v] : v \in EmbedVectors} \cup {GatewayError}

\* the chunk lists create_faiss_index is called with: n different texts
ChunkLists == {[i \in 1..n |-> Block(MinChunkLen + i)] : n \in 0..MaxN}

\* the dimensions found in a list of embeddings
Dimensions(embs) == {Len(embs[i]) : i \in 1..Len(embs)}

\* embeddings.append(embedding) put at the wrong end
AppendEmbeddingFront(embs, e) == <<e>> \o embs

\* embeddings.append(embedding), line 155
AppendEmbedding(embs, e) == Append(embs, e)

\* a loop body that swallows the gateway's exception and goes on
LoopBodySkipping(embs, out) ==
    IF ~out.ok
    THEN [pc |-> "called", embeddings |-> embs, error |-> "none"]
    ELSE [pc |-> "called", embeddings |-> AppendEmbedding(embs, out.embedding),
          error |-> "none"]

\* one pass of the loop of lines 153-155, out being what get_embeddings did:
\* an exception leaves the function, a vector is appended
LoopBody(embs, out) ==
    IF ~out.ok
    THEN [pc |-> "raised", embeddings |-> embs, error |-> "GatewayError"]
    ELSE [pc |-> "called", embeddings |-> AppendEmbedding(embs, out.embedding),
          error |-> "none"]

\* lines 158-165 accepting rows of different lengths: the rows of the first
\* row's dimension are indexed
ArrayAndIndexLenient(embs) ==
    IF Len(embs) = 0
    THEN [pc |-> "raised", error |-> "IndexError", added |-> 0, index |-> <<>>]
    ELSE LET same == Ascending({i \in 1..Len(embs) : Len(embs[i]) = Len(embs[1])})
             rows == [j \in 1..Len(same) |-> embs[same[j]]]
         IN  [pc |-> "returned", error |-> "none", added |-> Len(rows), index |-> rows]

\* lines 158-165: np.array(...).astype('float32') raises ValueError for rows
\* of different lengths (158); the array of an empty list has one axis, so
\* shape[1] raises IndexError (161); otherwise every row is added (163)
ArrayAndIndex(embs) ==
    IF Len(embs) = 0
    THEN [pc |-> "raised", error |-> "IndexError", added |-> 0, index |-> <<>>]
    ELSE IF Cardinality(Dimensions(embs)) > 1
    THEN [pc |-> "raised", error |-> "ValueError", added |-> 0, index |-> <<>>]
    ELSE [pc |-> "returned", error |-> "none", added |-> Len(embs), index |-> embs]

\* one iteration of `for chunk in chunks` (153-155): the next chunk goes to
\* the gateway
EmbedChunk ==
    /\ b_pc = "called"
    /\ Len(gateway_calls) < Len(b_chunks)
    /\ LET chunk == b_chunks[Len(gateway_calls) + 1]
       IN  \E out \in get_embeddings(chunk) :
              LET r == LoopBody(embeddings, out)
              IN  /\ gateway_calls' = Append(gateway_calls, [text |-> chunk, result |-> out])
                  /\ embeddings' = r.embeddings
                  /\ b_pc' = r.pc
                  /\ b_error' = r.error
    /\ UNCHANGED <<b_chunks, b_added, index>>
    /\ UNCHANGED exceptBuild

\* the loop is over: lines 158-165
BuildIndex ==
    /\ b_pc = "called"
    /\ Len(gateway_calls) = Len(b_chunks)
    /\ LET r == ArrayAndIndex(embeddings)
       IN  /\ b_pc' = r.pc
           /\ b_error' = r.error
           /\ b_added' = r.added
           /\ index' = r.index
    /\ UNCHANGED <<b_chunks, embeddings, gateway_calls>>
    /\ UNCHANGED exceptBuild

\* create_faiss_index(chunks) has been called and is about to enter its loop
InitBuild ==
    /\ text = <<>> /\ TextIdle /\ index = <<>> /\ SearchIdle
    /\ b_chunks \in ChunkLists /\ b_pc = "called" /\ embeddings = <<>>
    /\ gateway_calls = <<>> /\ b_error = "none" /\ b_added = 0
    /\ DbIdle

\* the index create_faiss_index returns is then searched
NextBuild == EmbedChunk \/ BuildIndex \/ SearchSimilarChunks

SpecBuild == InitBuild /\ [][NextBuild]_vars

(***************************************************************************)
(* database.py: get_engine (20-39), run when the module is imported (41)   *)
(***************************************************************************)
max_retries == 3
retry_delay == 2

\* what create_engine(...) and engine.connect() of lines 27-30 can do: work,
\* raise OperationalError, or raise anything else
ConnectOutcomes == {"ok", "OperationalError", "OtherError"}

\* the entries of e_log
ConnectEvent(outcome) == [ev |-> "connect", outcome |-> outcome, secs |-> 0]
SleepEvent(secs) == [ev |-> "sleep", outcome |-> "none", secs |-> secs]

\* an except branch that sleeps after every failed attempt
AfterOperationalErrorSleeping(attempt) == "sleep"

\* the except branch, lines 35-39: sleep unless this was the last attempt
AfterOperationalError(attempt) ==
    IF attempt < max_retries - 1 THEN "sleep" ELSE "raise"

\* one pass of `for attempt in range(max_retries)`, lines 25-39; a loop that
\* runs out of attempts ends the function, which then returns None
AttemptStep(attempt, outcome) ==
    IF outcome = "ok"
    THEN [pc |-> "returned", attempt |-> attempt,
          events |-> <<ConnectEvent(outcome)>>, error |-> "none"]
    ELSE IF outcome = "OperationalError"
    THEN IF AfterOperationalError(attempt) = "sleep"
         THEN [pc |-> IF attempt + 1 < max_retries THEN "connecting"
                      ELSE "returned_none",
               attempt |-> attempt + 1,
               events |-> <<ConnectEvent(outcome), SleepEvent(retry_delay)>>,
               error |-> "none"]
         ELSE [pc |-> "raised", attempt |-> attempt,
               events |-> <<ConnectEvent(outcome)>>, error |-> outcome]
    ELSE [pc |-> "raised", attempt |-> attempt,
          events |-> <<ConnectEvent(outcome)>>, error |-> outcome]

\* get_engine makes its next connection attempt
GetEngineAttempt ==
    /\ e_pc = "connecting"
    /\ \E outcome \in ConnectOutcomes :
          LET r == AttemptStep(e_attempt, outcome)
          IN  /\ e_pc' = r.pc
              /\ e_attempt' = r.attempt
              /\ e_log' = e_log \o r.events
              /\ e_error' = r.error
    /\ UNCHANGED dbVars
    /\ UNCHANGED exceptDb

(***************************************************************************)
(* database.py: websites and their chunks (129-198)                        *)
(***************************************************************************)
\* a call on the session either works or raises SQLAlchemyError
DbOutcomes == {"ok", "SQLAlchemyError"}

\* the id of the website row with this url, 0 if there is none (line 135)
FindWebsite(ws, url) ==
    LET found == {i \in 1..Len(ws) : ws[i].url = url}
    IN  IF found = {} THEN 0 ELSE CHOOSE i \in found : \A j \in found : i <= j

\* get_or_create_website(url, content) without a database error, lines
\* 135-146: the table afterwards and the id returned
GetOrCreate(ws, url, content) ==
    IF FindWebsite(ws, url) = 0
    THEN [websites |-> Append(ws, [url |-> url, content |-> content]),
          id |-> Len(ws) + 1]
    ELSE [websites |-> ws, id |-> FindWebsite(ws, url)]

\* what get_or_create_website(url, content) can do, lines 129-152: return
\* the id; raise with nothing committed (rollback, 148); or, when it
\* created the row, raise after the commit of line 140 took effect (the
\* reload of the expired row for website.id at line 145 fails, or the
\* acknowledgement of the commit is lost)
GetOrCreateOutcomes(ws, url, content) ==
    LET r == GetOrCreate(ws, url, content)
    IN  {[websites |-> r.websites, id |-> r.id, raised |-> FALSE],
         [websites |-> ws, id |-> 0, raised |-> TRUE]}
        \cup (IF FindWebsite(ws, url) = 0
              THEN {[websites |-> r.websites, id |-> 0, raised |-> TRUE]}
              ELSE {})

\* line 161: the positions of the rows the DELETE removes, which are the
\* rows of the website committed when the statement runs
DeletedRows(rows, w) == {i \in 1..Len(rows) : rows[i].website_id = w}

\* the table without the rows at the positions del
Without(rows, del) ==
    LET kept == Ascending((1..Len(rows)) \ del)
    IN  [j \in 1..Len(kept) |-> rows[kept[j]]]

\* where the rows at the positions mine are once the rows at del are gone
Renumber(mine, del) ==
    {q - Cardinality({d \in del : d < q}) : q \in mine \ del}

\* lines 164-170: one row per chunk, chunk_index counting from 0
AddChunks(rows, w, cs) ==
    rows \o [i \in 1..Len(cs) |->
                [website_id |-> w, chunk_index |-> i - 1, chunk_text |-> cs[i]]]

\* the rows the transaction x of store_website_chunks sees once the delete
\* and the first n inserts have been sent, before the commit
PendingRows(rows, x, n) ==
    AddChunks(Without(rows, x.deleted), x.website_id, SubSeq(x.chunks, 1, n))

\* a failed transaction whose statements stay in the table
RolledBackNot(committed, pending) == pending

\* session.rollback() of line 175: the table is as it was committed
RolledBack(committed, pending) == committed

\* line 161 done by thread t for store_website_chunks(w, cs)
BeginStore(txns, t, rows, w, cs) ==
    [txns EXCEPT ![t] = [open |-> TRUE, website_id |-> w, chunks |-> cs,
                         deleted |-> DeletedRows(rows, w)]]

\* the commit of line 172 by thread t has taken effect: its deleted rows are
\* gone, all its rows are in, and the other threads' deleted rows are where
\* they now are
CommitStore(txns, t, rows) ==
    [content_chunks |-> PendingRows(rows, txns[t], Len(txns[t].chunks)),
     store_txn |-> [u \in Threads |->
                       IF u = t THEN NoTxn
                       ELSE [txns[u] EXCEPT
                               !.deleted = Renumber(@, txns[t].deleted)]]]

\* the orders in which the rows at the positions ps can come back from a
\* query ordered by chunk_index: rows of equal chunk_index in any order
RECURSIVE OrdersBy(_, _)
OrdersBy(rows, ps) ==
    IF ps = {} THEN {<<>>}
    ELSE LET firsts == {i \in ps :
                          \A j \in ps : rows[i].chunk_index <= rows[j].chunk_index}
         IN  UNION {{<<rows[i].chunk_text>> \o rest :
                        rest \in OrdersBy(rows, ps \ {i})} : i \in firsts}

\* the query of lines 187-191: what it can return, the texts of the
\* website's rows by ascending chunk_index
QueryChunks(rows, w) == OrdersBy(rows, DeletedRows(rows, w))

\* the contents a website row is created with
Contents == {None, Block(MinChunkLen)}

\* the chunk lists store_website_chunks is given
StoredLists ==
    LET A == Block(MinChunkLen)
        B == Block(MinChunkLen + 1)
    IN  {<<>>, <<A>>, <<B, A>>, <<A, B, A>>}

\* some thread is not inside store_website_chunks and makes the call
SomeThreadFree == \E t \in Threads : ~store_txn[t].open

\* get_or_create_website(url, content), lines 129-152
GetOrCreateWebsite ==
    /\ e_pc = "returned" /\ SomeThreadFree
    /\ \E url \in Urls, content \in Contents :
          \E out \in GetOrCreateOutcomes(websites, url, content) :
              /\ websites' = out.websites
              /\ db_call' = [fn |-> "get_or_create_website",
                             website_id |-> out.id, raised |-> out.raised,
                             result |-> <<>>,
                             committed |-> out.websites # websites]
    /\ UNCHANGED <<content_chunks, last_stored, store_txn>>
    /\ UNCHANGED engineVars
    /\ UNCHANGED exceptDb

\* store_website_chunks(w, cs) up to its DELETE, lines 158-161; an error
\* here is rolled back and raised (174-177)
StoreWebsiteChunksDelete ==
    /\ e_pc = "returned"
    /\ \E t \in Threads, w \in 1..Len(websites), cs \in StoredLists,
          outcome \in DbOutcomes :
          /\ ~store_txn[t].open
          /\ IF outcome = "ok"
             THEN /\ store_txn' = BeginStore(store_txn, t, content_chunks, w, cs)
                  /\ db_call' = db_call
             ELSE /\ store_txn' = store_txn
                  /\ db_call' = [fn |-> "store_website_chunks", website_id |-> w,
                                 raised |-> TRUE, result |-> <<>>,
                                 committed |-> FALSE]
    /\ UNCHANGED <<websites, content_chunks, last_stored>>
    /\ UNCHANGED engineVars
    /\ UNCHANGED exceptDb

\* how the inserts and the commit of lines 164-172 can end: committed and
\* returned; an error, rolled back and raised (174-177); or committed by the
\* server while the call raises, the acknowledgement being lost
CommitOutcomes == {"ok", "SQLAlchemyError", "SQLAlchemyError after commit"}

\* store_website_chunks from its inserts on, lines 164-179
StoreWebsiteChunksCommit ==
    /\ e_pc = "returned"
    /\ \E t \in Threads, outcome \in CommitOutcomes :
          LET x == store_txn[t]
              w == x.website_id
              done == CommitStore(store_txn, t, content_chunks)
          IN  /\ x.open
              /\ IF outcome = "SQLAlchemyError"
                 THEN \E n \in 0..Len(x.chunks) :  \* the error strikes after n inserts
                        /\ content_chunks' =
                              RolledBack(content_chunks,
                                         PendingRows(content_chunks, x, n))
                        /\ store_txn' = [store_txn EXCEPT ![t] = NoTxn]
                        /\ last_stored' = last_stored
                        /\ db_call' = [fn |-> "store_website_chunks",
                                       website_id |-> w, raised |-> TRUE,
                                       result |-> SubSeq(x.chunks, 1, n),
                                       committed |-> FALSE]
                 ELSE /\ content_chunks' = done.content_chunks
                      /\ store_txn' = done.store_txn
                      /\ last_stored' =
                            [last_stored EXCEPT ![w] =
                               [stored |-> outcome = "ok", cur |-> x.chunks]]
                      /\ db_call' = [fn |-> "store_website_chunks",
                                     website_id |-> w, raised |-> outcome # "ok",
                                     result |-> x.chunks, committed |-> TRUE]
    /\ UNCHANGED websites
    /\ UNCHANGED engineVars
    /\ UNCHANGED exceptDb

\* get_website_chunks(w), lines 181-198: a database error is logged and the
\* empty list returned (194-196)
GetWebsiteChunks ==
    /\ e_pc = "returned" /\ SomeThreadFree
    /\ \E w \in 1..Len(websites), outcome \in DbOutcomes :
          \E texts \in QueryChunks(content_chunks, w) :
              db_call' = [fn |-> "get_website_chunks", website_id |-> w,
                          raised |-> (outcome # "ok"),
                          result |-> IF outcome = "ok" THEN texts ELSE <<>>,
                          committed |-> FALSE]
    /\ UNCHANGED <<websites, content_chunks, last_stored, store_txn>>
    /\ UNCHANGED engineVars
    /\ UNCHANGED exceptDb

\* database.py is being imported: get_engine has entered its loop, the
\* tables are empty
InitDb ==
    /\ text = <<>> /\ TextIdle /\ index = <<>> /\ SearchIdle /\ BuildIdle("idle")
    /\ e_pc = "connecting" /\ e_attempt = 0 /\ e_log = <<>> /\ e_error = "none"
    /\ TablesEmpty /\ AppIdle

NextDb ==
    \/ GetEngineAttempt
    \/ GetOrCreateWebsite
    \/ StoreWebsiteChunksDelete
    \/ StoreWebsiteChunksCommit
    \/ GetWebsiteChunks

SpecDb == InitDb /\ [][NextDb]_vars

(***************************************************************************)
(* database.py: chat sessions and messages (200-258)                       *)
(***************************************************************************)
\* create_chat_session(wid) committed, lines 206-212
CreateChatSession(sessions, wid) ==
    [chat_sessions |-> Append(sessions, [website_id |-> wid]),
     id |-> Len(sessions) + 1]

\* what datetime.utcnow() returns when a row is flushed (line 110): the clock
\* of the server that runs the call, which can be set back, read at the
\* flush and not at the commit
MaxClock == 2                \* most instants the clock shows
Instants == 1..MaxClock

\* add_chat_message(sid, role, content) committed, lines 226-232, the row
\* flushed at the instant now
AddChatMessage(msgs, sid, role, content, now) ==
    Append(msgs, [session_id |-> sid, role |-> role, content |-> content,
                  created_at |-> now])

\* how the commit of line 232 can end for session_id sid: a row without a
\* chat session (session_id None) is refused at the flush
MessageOutcomes(sid) ==
    IF sid = 0 THEN {"SQLAlchemyError"} ELSE CommitOutcomes

\* an add_chat_message that ends its except branch with `raise`, as
\* get_or_create_website (150), store_website_chunks (177) and
\* create_chat_session (216) do
AddChatMessageReraising(msgs, sid, role, content) ==
    {[chat_messages |->
          IF o = "SQLAlchemyError"
          THEN RolledBack(msgs, AddChatMessage(msgs, sid, role, content, now))
          ELSE AddChatMessage(msgs, sid, role, content, now),
      error |-> o # "ok",
      committed |-> o # "SQLAlchemyError",
      raised |-> o # "ok"] : o \in MessageOutcomes(sid), now \in Instants}

\* add_chat_message(sid, role, content), lines 220-239, by how the commit of
\* line 232 ends: the row is committed; or a SQLAlchemyError comes up before
\* the commit took effect and the rollback of line 235 leaves the table as
\* it was; or the server applied the commit and the call still saw an error,
\* so that the rollback has nothing to undo.  The except branch (234-237)
\* logs and does not raise: nothing reaches the caller in any case.
add_chat_message(msgs, sid, role, content) ==
    {[chat_messages |->
          IF o = "SQLAlchemyError"
          THEN RolledBack(msgs, AddChatMessage(msgs, sid, role, content, now))
          ELSE AddChatMessage(msgs, sid, role, content, now),
      error |-> o # "ok",
      committed |-> o # "SQLAlchemyError",
      raised |-> FALSE] : o \in MessageOutcomes(sid), now \in Instants}

\* the orders in which the rows at the positions ps can come back from a
\* query ordered by created_at: rows of equal created_at in any order
RECURSIVE OrdersByCreatedAt(_, _)
OrdersByCreatedAt(msgs, ps) ==
    IF ps = {} THEN {<<>>}
    ELSE LET firsts == {i \in ps :
                          \A j \in ps : msgs[i].created_at <= msgs[j].created_at}
         IN  UNION {{<<(<<msgs[i].role, msgs[i].content>>)>> \o rest :
                        rest \in OrdersByCreatedAt(msgs, ps \ {i})} : i \in firsts}

\* the rows of chat session sid
MessagesOf(msgs, sid) == {i \in 1..Len(msgs) : msgs[i].session_id = sid}

\* the query of lines 247-251: what it can return, the messages of the chat
\* session by ascending created_at
ChatHistory(msgs, sid) == OrdersByCreatedAt(msgs, MessagesOf(msgs, sid))

\* get_chat_history(sid), lines 241-258: the messages, or [] on a database
\* error (254-256)
get_chat_history(msgs, sid) == ChatHistory(msgs, sid) \cup {<<>>}

\* the ids get_chat_sessions_for_website(wid) lists, lines 266-272
SessionsOf(sessions, wid) ==
    {i \in 1..Len(sessions) : sessions[i].website_id = wid}

(***************************************************************************)
(* app.py: one browser session                                             *)
(***************************************************************************)
MaxSessions == 2             \* most chat sessions created
MaxMessages == 2             \* most rows of the table chat_messages
MaxHistory == 3              \* most entries of chat_history
MaxOther == 1                \* most database calls of other browser sessions

AppK == 7

\* what the user types into the question box
Queries == {"q1"}

\* what the users of other browser sessions ask: the same question or
\* another one
OtherQueries == Queries \cup {"q2"}

\* what generate_response returns: a text, be it the model's answer or the
\* one built from an exception (llm_utils.py 93-97)
Responses == {"answer"}

\* the reply of line 243
NoInformation == "I don't have enough information"

\* the text of the page behind a url, one that process_text makes one chunk
\* of
PageOf(url) == Block(MinChunkLen + 1)

\* a page too short for any chunk
ShortPage == Block(MinChunkLen)

\* scrape_website(url): the page's text, or None when every method fails
scrape_website(url) == {None, ShortPage, PageOf(url)}

\* process_text(website_content) of line 61 for the pages above
ChunksOf ==
    [t \in {ShortPage} \cup {PageOf(u) : u \in Urls} |->
        process_text(t, DefaultChunkSize, DefaultChunkOverlap).chunks]

\* create_faiss_index(cs) as one call: the loop of lines 153-155 from chunk
\* i on, then lines 158-165
RECURSIVE EmbedLoop(_, _, _)
EmbedLoop(cs, i, embs) ==
    IF i > Len(cs) THEN {ArrayAndIndex(embs)}
    ELSE UNION {
            LET r == LoopBody(embs, out)
            IN  IF r.pc = "raised"
                THEN {[pc |-> "raised", error |-> r.error, added |-> 0,
                       index |-> <<>>]}
                ELSE EmbedLoop(cs, i + 1, r.embeddings)
            : out \in get_embeddings(cs[i])}

create_faiss_index(cs) == EmbedLoop(cs, 1, <<>>)

\* the tables and the session state as one value
World ==
    [websites |-> websites, content_chunks |-> content_chunks,
     store_txn |-> store_txn,
     chat_sessions |-> chat_sessions, chat_messages |-> chat_messages,
     chatbot_ready |-> chatbot_ready, index |-> st_index, chunks |-> st_chunks,
     website_url |-> website_url, website_id |-> website_id,
     chat_session_id |-> chat_session_id, chat_history |-> chat_history,
     current_query |-> current_query,
     response_generated |-> response_generated, event |-> app_event,
     run |-> run, submission |-> submission,
     msg_call |-> NoWrite]        \* no add_chat_message call yet in the step

\* the next state is the world w
Becomes(w) ==
    /\ websites' = w.websites
    /\ content_chunks' = w.content_chunks
    /\ store_txn' = w.store_txn
    /\ chat_sessions' = w.chat_sessions
    /\ chat_messages' = w.chat_messages
    /\ chatbot_ready' = w.chatbot_ready
    /\ st_index' = w.index
    /\ st_chunks' = w.chunks
    /\ website_url' = w.website_url
    /\ website_id' = w.website_id
    /\ chat_session_id' = w.chat_session_id
    /\ chat_history' = w.chat_history
    /\ current_query' = w.current_query
    /\ response_generated' = w.response_generated
    /\ app_event' = w.event
    /\ run' = w.run
    /\ submission' = w.submission
    /\ msg_call' = w.msg_call

\* the script run is over; ev says how it ended
EndRun(w, ev) == [w EXCEPT !.run = NoRun, !.event = ev]

\* the run goes on to its next database call
GoOn(w, r) == [w EXCEPT !.run = r, !.event = "running"]

\* the run ended in the handler's `except Exception` of lines 153-154
DatabaseError(w) == EndRun(w, "db_error")

\* A run is stopped at the next Streamlit call (st.spinner, st.error,
\* st.success) or access of st.session_state when the user has changed a
\* widget meanwhile: the exception that stops it is not an Exception, so no
\* handler catches it, the script is rerun and nothing of the stopped run is
\* shown.  Of the worlds ws, those in which the run ended can also be
\* stopped at the call that ends them, ev being the event of the stopped
\* run; a generated reply ends in st.rerun (286).
OrStopped(ws, ev) ==
    ws \cup {[w EXCEPT !.event = ev] :
                w \in {v \in ws : v.run.pc = "idle" /\ v.event # "generated"}}

\* the world w after the first n of the assignments as to st.session_state,
\* each a pair <<name, value>>; a run stopped at assignment n + 1 leaves it
RECURSIVE Assigned(_, _, _)
Assigned(w, as, n) ==
    IF n = 0 THEN w
    ELSE [Assigned(w, as, n - 1) EXCEPT ![as[n][1]] = as[n][2]]

\* the run of the Create Chatbot handler was stopped before its next
\* database call
Aborted(w) == EndRun(w, "create_stopped")

\* lines 118-122: the handler of the Create Chatbot button up to its
\* get_or_create_website(url)
CheckDatabase(w, url) ==
    OrStopped(
        {IF out.raised
         THEN DatabaseError([w EXCEPT !.websites = out.websites])
         ELSE GoOn([w EXCEPT !.websites = out.websites],
                   [NoRun EXCEPT !.pc = "get_website_chunks", !.url = url,
                                 !.website_id = out.id,
                                 !.created = out.websites # w.websites])
         : out \in GetOrCreateOutcomes(w.websites, url, None)},
        "create_stopped")

\* lines 125-127 and 48-75: get_website_chunks, which returns [] on a
\* database error; then either the stored chunks are taken or the page is
\* scraped and chunked.  The spinners of lines 121, 48 and 58 are Streamlit
\* calls at which the run can be stopped.
LoadOrScrape(w) ==
    {Aborted(w)} \cup
    UNION {
        IF existing_chunks # <<>>                                 \* line 127
        THEN {GoOn(w, [w.run EXCEPT !.pc = "create_chat_session",
                                    !.chunks = existing_chunks,
                                    !.existing = TRUE])}
        ELSE {IF Falsy(content) \/ ChunksOf[content] = <<>>       \* 50, 62
              THEN EndRun(w, "no_content")
              ELSE GoOn(w, [w.run EXCEPT !.pc = "get_or_create_website",
                                         !.chunks = ChunksOf[content]])
              : content \in scrape_website(w.run.url)}
        : existing_chunks \in
              QueryChunks(w.content_chunks, w.run.website_id) \cup {<<>>}}

\* line 78: get_or_create_website(url, website_content); the content that
\* got here is the page of the url
RecordWebsite(w) ==
    OrStopped(
        {IF out.raised
         THEN DatabaseError([w EXCEPT !.websites = out.websites])
         ELSE GoOn([w EXCEPT !.websites = out.websites],
                   [w.run EXCEPT !.pc = "delete_chunks", !.website_id = out.id])
         : out \in GetOrCreateOutcomes(w.websites, w.run.url,
                                       PageOf(w.run.url))},
        "create_stopped")

\* line 79, store_website_chunks up to its DELETE
DeleteOldChunks(w) ==
    OrStopped(
        {DatabaseError(w),
         GoOn([w EXCEPT !.store_txn =
                    BeginStore(@, "t1", w.content_chunks, w.run.website_id,
                               w.run.chunks)],
              [w.run EXCEPT !.pc = "commit_chunks"])},
        "create_stopped")

\* line 79, store_website_chunks from its inserts on
CommitNewChunks(w) ==
    LET done == CommitStore(w.store_txn, "t1", w.content_chunks)
        stored == [w EXCEPT !.content_chunks = done.content_chunks,
                            !.store_txn = done.store_txn]
    IN  OrStopped(
            {GoOn(stored, [w.run EXCEPT !.pc = "create_chat_session"]),
             DatabaseError(stored),
             DatabaseError([w EXCEPT !.store_txn["t1"] = NoTxn])},
            "create_stopped")

\* the assignments of lines 87-93 and 135-141
SessionWrites(res, cs, url, wid, sid) ==
    <<(<<"index", [built |-> TRUE, rows |-> res.index]>>),
      (<<"chunks", cs>>),
      (<<"chatbot_ready", TRUE>>),
      (<<"website_url", url>>),
      (<<"website_id", wid>>),
      (<<"chat_session_id", sid>>),
      (<<"chat_history", <<>> >>)>>

\* lines 85-105 and 133-146: the try around create_faiss_index, res being
\* what create_faiss_index did.  After a build the seven assignments are
\* made, unless the run is stopped at one of them or at the st.success that
\* follows; an exception of the build is reported with st.error, where the
\* run can be stopped as well.
SessionAfterBuild(w, res, cs, url, wid, sid, ev) ==
    IF res.pc = "returned"
    THEN LET as == SessionWrites(res, cs, url, wid, sid)
         IN  {[Assigned(w, as, Len(as)) EXCEPT !.event = ev]} \cup
             {[Assigned(w, as, n) EXCEPT !.event = "create_stopped"] :
                 n \in 0..Len(as)}
    ELSE {[w EXCEPT !.event = "build_failed"],
          [w EXCEPT !.event = "create_stopped"]}

\* lines 82 and 130: create_chat_session, which can raise with nothing
\* committed, or after its commit of line 208 took effect (the reload for
\* chat_session.id at line 210 fails, or the acknowledgement of the commit is
\* lost); when it returns, the run goes on to create_faiss_index with the
\* row committed and the session state not yet written
NewChatSession(w) ==
    LET c == CreateChatSession(w.chat_sessions, w.run.website_id)
        w1 == [w EXCEPT !.chat_sessions = c.chat_sessions]
    IN  OrStopped(
            {DatabaseError(w), DatabaseError(w1),
             GoOn(w1, [w.run EXCEPT !.pc = "create_faiss_index",
                                    !.chat_session_id = c.id])},
            "create_stopped")

\* lines 85-105 and 133-146: create_faiss_index, which waits on the
\* embedding service once per chunk and writes nothing meanwhile, then the
\* writes of the session state or the report of the exception
IndexAndSessionState(w) ==
    UNION {SessionAfterBuild(EndRun(w, "running"), res, w.run.chunks,
                             w.run.url, w.run.website_id, w.run.chat_session_id,
                             IF w.run.existing THEN "loaded" ELSE "created") :
              res \in create_faiss_index(w.run.chunks)}

\* what the handler knows of an add_chat_message call that ended as out
CallOf(role, out) ==
    [role |-> role, error |-> out.error, committed |-> out.committed,
     raised |-> out.raised]


\* lines 278-286: the reply is appended to chat_history, written, and
\* response_generated is set; the run can be stopped at the access of
\* st.session_state in line 281, before the call, and at that of line 284,
\* after it
RepliedWith(w, response) ==
    LET w0 == [w EXCEPT !.chat_history = Append(@, <<"ai", response>>),
                        !.submission.replied = TRUE]
    IN  {[w0 EXCEPT !.event = "generate_stopped"]} \cup
        UNION {
            LET w1 == [w0 EXCEPT !.chat_messages = out.chat_messages,
                                 !.msg_call = CallOf("ai", out)]
            IN  IF out.raised                               \* caught at line 287
                THEN {[w1 EXCEPT !.event = "generate_failed"]}
                ELSE {[w1 EXCEPT !.event = "generate_stopped"],
                      [w1 EXCEPT !.response_generated = TRUE,
                                 !.event = "generated"]}
            : out \in add_chat_message(w.chat_messages, w.chat_session_id,
                                       "ai", response)}

\* lines 229-288 once the query embedding out is there
GenerateFrom(w, out) ==
    IF ~out.ok \/ Len(out.embedding) # Len(w.index.rows[1])
    THEN {[w EXCEPT !.event = "generate_failed"]} \* get_embeddings or index.search raised
    ELSE LET q == out.embedding
             k_search == KSearch(w.index.rows, AppK)
             \* distance_threshold = 1.5 (line 238): the distances are doubled
             \* and compared with 3 to stay in the integers
             similar ==
                 IF k_search = 0 THEN {<<>>}
                 ELSE {FilterResults(r,
                          [i \in 1..Len(r) |-> 2 * L2(w.index.rows[r[i] + 1], q)],
                          AppK, 3)[1] :
                       r \in IndexSearch(w.index.rows, q, k_search)}
         IN  UNION {
                 IF \E j \in 1..Len(inds) : inds[j] >= Len(w.chunks)   \* line 251
                 THEN {[w EXCEPT !.event = "generate_failed"]}
                 ELSE UNION {
                         RepliedWith(w, response)
                         : response \in (IF inds = <<>> THEN {NoInformation}
                                         ELSE Responses)}
                 : inds \in similar}

\* the test of line 223: the question is not the last entry of chat_history
NotYetAdded(w) ==
    \/ w.chat_history = <<>>
    \/ w.chat_history[Len(w.chat_history)] # <<"user", w.current_query>>

\* lines 225-227: the question is appended to chat_history and written
AppendUserMessage(w) ==
    {[w EXCEPT !.chat_history = Append(@, <<"user", w.current_query>>),
               !.chat_messages = out.chat_messages,
               !.msg_call = CallOf("user", out),
               !.submission.stored =
                   IF out.committed THEN @ \cup {w.chat_session_id}
                   ELSE @] :
     out \in add_chat_message(w.chat_messages, w.chat_session_id,
                              "user", w.current_query)}

\* lines 223-227: the question is added unless it is the last entry
AddUserMessage(w) ==
    IF NotYetAdded(w) THEN AppendUserMessage(w) ELSE {w}

\* lines 221-230: the handler of the Generate Response button up to the
\* spinner of line 230, a Streamlit call at which the run can be stopped;
\* it can also be stopped at the accesses of st.session_state in line 227,
\* after the append of line 225 and before the call.  The call of line 227
\* is in no try: an exception raised by it would end the script run there.
AskQuestion(w) ==
    (IF NotYetAdded(w)
     THEN {EndRun([w EXCEPT !.chat_history =
                                Append(@, <<"user", w.current_query>>)],
                  "generate_stopped")}
     ELSE {})
    \cup
    UNION {IF w1.msg_call.raised
           THEN {EndRun(w1, "exception")}
           ELSE {GoOn(w1, [NoRun EXCEPT !.pc = "generate"]),
                 EndRun(w1, "generate_stopped")} :
              w1 \in AddUserMessage(w)}

\* lines 232-288: the reply is generated, appended and written, or an
\* exception is reported
GenerateReply(w) ==
    OrStopped(UNION {GenerateFrom(EndRun(w, "running"), out) :
                        out \in get_embeddings(w.current_query)},
              "generate_stopped")

\* the user clicks Create Chatbot with a url in the box
CreateChatbotClick ==
    /\ run.pc = "idle"
    /\ Len(chat_sessions) < MaxSessions
    /\ \E url \in Urls : \E w \in CheckDatabase(World, url) : Becomes(w)
    /\ others' = others
    /\ UNCHANGED exceptApp

\* the run of the Create Chatbot handler reads the stored chunks
GetStoredChunks ==
    /\ run.pc = "get_website_chunks"
    /\ \E w \in LoadOrScrape(World) : Becomes(w)
    /\ others' = others
    /\ UNCHANGED exceptApp

\* create_chatbot records the website
GetOrCreateWithContent ==
    /\ run.pc = "get_or_create_website"
    /\ \E w \in RecordWebsite(World) : Becomes(w)
    /\ others' = others
    /\ UNCHANGED exceptApp

\* create_chatbot stores the chunks: the DELETE
StoreChunksDelete ==
    /\ run.pc = "delete_chunks"
    /\ \E w \in DeleteOldChunks(World) : Becomes(w)
    /\ others' = others
    /\ UNCHANGED exceptApp

\* create_chatbot stores the chunks: the inserts and the commit
StoreChunksCommit ==
    /\ run.pc = "commit_chunks"
    /\ \E w \in CommitNewChunks(World) : Becomes(w)
    /\ others' = others
    /\ UNCHANGED exceptApp

\* the run creates the chat session
CreateSession ==
    /\ run.pc = "create_chat_session"
    /\ \E w \in NewChatSession(World) : Becomes(w)
    /\ others' = others
    /\ UNCHANGED exceptApp

\* the run builds the index, writes the session state and ends
CreateIndex ==
    /\ run.pc = "create_faiss_index"
    /\ \E w \in IndexAndSessionState(World) : Becomes(w)
    /\ others' = others
    /\ UNCHANGED exceptApp

\* lines 216-218 for the text user_query: the two assignments, or the first
\* one only when the run is stopped at the second
UpdateQuery(w, user_query) ==
    LET as == <<(<<"current_query", user_query>>),
                (<<"response_generated", FALSE>>)>>
        w1 == [w EXCEPT !.submission = NothingAppended]
    IN  {[Assigned(w1, as, 2) EXCEPT !.event = "typed"],
         [Assigned(w1, as, 1) EXCEPT !.event = "type_stopped"]}

\* the user types a question: lines 213-218
TypeQuery ==
    /\ run.pc = "idle"
    /\ chatbot_ready
    /\ \E user_query \in Queries :
          /\ user_query # current_query                           \* line 216
          /\ \E w \in UpdateQuery(World, user_query) : Becomes(w)
    /\ others' = others
    /\ UNCHANGED exceptApp

\* the table and chat_history stay within the bounds
Fits(w) ==
    /\ Len(w.chat_messages) <= MaxMessages
    /\ Len(w.chat_history) <= MaxHistory

\* the user clicks Generate Response
GenerateResponseClick ==
    /\ run.pc = "idle"
    /\ chatbot_ready
    /\ current_query # "" /\ ~response_generated                  \* line 221
    /\ \E w \in AskQuestion(World) : Fits(w) /\ Becomes(w)
    /\ others' = others
    /\ UNCHANGED exceptApp

\* the run of the Generate Response handler produces the reply and ends
GenerateResponse ==
    /\ run.pc = "generate"
    /\ \E w \in GenerateReply(World) : Fits(w) /\ Becomes(w)
    /\ others' = others
    /\ UNCHANGED exceptApp

\* lines 186-187 for the chat session selected: the two assignments, or the
\* first one only when the run is stopped at the second
SwitchSession(w, selected_session_id) ==
    UNION {
        LET as == <<(<<"chat_history", history>>),
                    (<<"chat_session_id", selected_session_id>>)>>
        IN  {[Assigned(w, as, 2) EXCEPT !.event = "switched"],
             [Assigned(w, as, 1) EXCEPT !.event = "switch_stopped"]}
        : history \in get_chat_history(w.chat_messages, selected_session_id)}

\* the user picks a previous chat session in the sidebar, lines 159-194
SessionSwitch ==
    /\ run.pc = "idle"
    /\ chatbot_ready
    /\ website_id # 0
    /\ \E selected_session_id \in SessionsOf(chat_sessions, website_id) :
          /\ selected_session_id # chat_session_id                \* line 184
          /\ \E w \in SwitchSession(World, selected_session_id) : Becomes(w)
    /\ others' = others
    /\ UNCHANGED exceptApp

\* the assignments of lines 365-375
ResetWrites ==
    <<(<<"chatbot_ready", FALSE>>),
      (<<"index", NoIndex>>),
      (<<"chunks", <<>> >>),
      (<<"chat_history", <<>> >>),
      (<<"website_url", "">>),
      (<<"website_id", 0>>),
      (<<"chat_session_id", 0>>),
      (<<"current_query", "">>),
      (<<"response_generated", FALSE>>)>>

\* lines 365-383: the nine assignments, or the first n of them when the run
\* is stopped at the next one; with current_query the question is gone
ResetState(w) ==
    {[Assigned(w, ResetWrites, 9) EXCEPT !.event = "reset",
                                         !.submission = NothingAppended]}
    \cup
    {[Assigned(w, ResetWrites, n) EXCEPT
         !.event = "reset_stopped",
         !.submission = IF n >= 8 THEN NothingAppended ELSE @] : n \in 1..8}

\* the user clicks Create new chatbot, lines 363-383
ResetChatbot ==
    /\ run.pc = "idle"
    /\ chatbot_ready
    /\ \E w \in ResetState(World) : Becomes(w)
    /\ others' = others
    /\ UNCHANGED exceptApp

\* what the session state of the browser session under study keeps while
\* another browser session calls the database
sessionState ==
    <<chatbot_ready, st_index, st_chunks, website_url, website_id,
      chat_session_id, chat_history, current_query, response_generated,
      app_event, run, msg_call, submission>>

\* the rows the run under way will still add to chat_sessions
SessionsReserved ==
    IF run.pc \in {"get_website_chunks", "get_or_create_website",
                   "delete_chunks", "commit_chunks", "create_chat_session"}
    THEN 1 ELSE 0

\* another browser session clicks Create Chatbot for a url without a row: its
\* get_or_create_website(url) of line 122
OtherGetOrCreateWebsite ==
    /\ others < MaxOther
    /\ \E url \in Urls :
          /\ FindWebsite(websites, url) = 0
          /\ websites' = GetOrCreate(websites, url, None).websites
    /\ others' = others + 1
    /\ UNCHANGED <<content_chunks, store_txn, chatVars, sessionState>>
    /\ UNCHANGED exceptApp

\* another browser session's store_website_chunks of line 79, up to the DELETE
OtherStoreDelete ==
    /\ others < MaxOther
    /\ ~store_txn["t2"].open
    /\ \E wid \in 1..Len(websites) :
          store_txn' = BeginStore(store_txn, "t2", content_chunks, wid,
                                  ChunksOf[PageOf(websites[wid].url)])
    /\ others' = others + 1
    /\ UNCHANGED <<websites, content_chunks, chatVars, sessionState>>
    /\ UNCHANGED exceptApp

\* another browser session's store_website_chunks, the inserts and the commit
OtherStoreCommit ==
    /\ store_txn["t2"].open
    /\ LET done == CommitStore(store_txn, "t2", content_chunks)
       IN  /\ content_chunks' = done.content_chunks
           /\ store_txn' = done.store_txn
    /\ UNCHANGED <<websites, chatVars, sessionState, others>>
    /\ UNCHANGED exceptApp

\* another browser session's create_chat_session of line 82 or 130
OtherCreateChatSession ==
    /\ others < MaxOther
    /\ Len(chat_sessions) + SessionsReserved < MaxSessions
    /\ \E wid \in 1..Len(websites) :
          chat_sessions' = CreateChatSession(chat_sessions, wid).chat_sessions
    /\ others' = others + 1
    /\ UNCHANGED <<websites, content_chunks, store_txn, chat_messages,
                   sessionState>>
    /\ UNCHANGED exceptApp

\* what another browser session writes: its user's question (line 227) or
\* the reply to it (line 281)
OtherMessages ==
    {<<"user", q>> : q \in OtherQueries} \cup {<<"ai", r>> : r \in Responses}

\* another browser session's add_chat_message of line 227 or 281, in any
\* chat session: its own or one it selected in the sidebar; it can come
\* between the two writes of a run of this session, and between the commit
\* of a new chat session and the end of the run that created it
OtherAddChatMessage ==
    /\ others < MaxOther
    /\ Len(chat_messages) < MaxMessages
    /\ \E sid \in 1..Len(chat_sessions), m \in OtherMessages, now \in Instants :
          chat_messages' = AddChatMessage(chat_messages, sid, m[1], m[2], now)
    /\ others' = others + 1
    /\ UNCHANGED <<websites, content_chunks, store_txn, chat_sessions,
                   sessionState>>
    /\ UNCHANGED exceptApp

\* app.py has been started: database.py was imported, get_engine connected
\* at once, the tables are empty and the session state is new
Init ==
    /\ text = <<>> /\ TextIdle /\ index = <<>> /\ SearchIdle /\ BuildIdle("idle")
    /\ e_pc = "returned" /\ e_attempt = 0 /\ e_log = <<ConnectEvent("ok")>>
    /\ e_error = "none"
    /\ TablesEmpty /\ AppIdle

Next ==
    \/ CreateChatbotClick
    \/ GetStoredChunks
    \/ GetOrCreateWithContent
    \/ StoreChunksDelete
    \/ StoreChunksCommit
    \/ CreateSession
    \/ CreateIndex
    \/ TypeQuery
    \/ GenerateResponseClick
    \/ GenerateResponse
    \/ SessionSwitch
    \/ ResetChatbot
    \/ OtherGetOrCreateWebsite
    \/ OtherStoreDelete
    \/ OtherStoreCommit
    \/ OtherCreateChatSession
    \/ OtherAddChatMessage

Spec == Init /\ [][Next]_vars

(***************************************************************************)
(* Properties of search_similar_chunks, checked under SpecSearch           *)
(***************************************************************************)
\* a sequence of numbers in non-decreasing order
NonDecreasing(ds) == \A i \in 1..(Len(ds) - 1) : ds[i] <= ds[i + 1]

\* no searched candidate lies under the threshold
NonePasses == \A i \in 1..Len(raw_distances) : raw_distances[i] >= distance_threshold

\* length of the longest prefix of the candidates lying under the threshold
PassingPrefix ==
    Cardinality({m \in 1..Len(raw_distances) :
                    \A i \in 1..m : raw_distances[i] < distance_threshold})

\* C3: threshold fallback.  On a non-empty index with k >= 1, when no searched
\* candidate has distance < threshold the call returns exactly the first
\* min(k, N) candidates of the search, which come in ascending distance; the
\* result is then not empty.
C3_ThresholdFallback ==
    (sop = "returned" /\ ntotal(index) > 0 /\ k >= 1 /\ NonePasses) =>
        /\ NonDecreasing(raw_distances)
        /\ filtered_indices = SubSeq(raw_indices, 1, Min(k, ntotal(index)))
        /\ filtered_distances = SubSeq(raw_distances, 1, Min(k, ntotal(index)))
        /\ Len(filtered_indices) > 0

\* the fallback is taken with a positive threshold and cuts the candidates to k
C3_Witness ==
    /\ sop = "returned" /\ k >= 1 /\ k < ntotal(index)
    /\ distance_threshold > 0 /\ NonePasses
    /\ Len(raw_indices) > k /\ Len(filtered_indices) = k

\* C4: thresholded path.  When some candidate has distance < threshold the call
\* returns the longest prefix of the ascending candidate list whose distances
\* are all < threshold, cut to k entries: nothing at or over the threshold is
\* returned and nothing under it is left out unless k entries were kept.
C4_ThresholdedPrefix ==
    (sop = "returned" /\ ~NonePasses) =>
        /\ filtered_indices = SubSeq(raw_indices, 1, Min(k, PassingPrefix))
        /\ filtered_distances = SubSeq(raw_distances, 1, Min(k, PassingPrefix))
        /\ \A i \in 1..Len(filtered_distances) : filtered_distances[i] < distance_threshold
        /\ \A i \in 1..Len(raw_distances) :
              (raw_distances[i] < distance_threshold /\ Len(filtered_indices) < k)
                  => \E j \in 1..Len(filtered_indices) : filtered_indices[j] = raw_indices[i]

\* some candidates pass, one is cut off by the threshold and not by k
C4_Witness ==
    /\ sop = "returned" /\ ~NonePasses
    /\ PassingPrefix < Len(raw_indices) /\ PassingPrefix < k
    /\ Len(filtered_indices) = PassingPrefix

\* C5: for k >= 0 the call returns two lists of equal length, at most
\* min(k, N), the distances in non-decreasing order and each the distance of
\* the vector its ordinal names, on the thresholded and the fallback path.
C5_BoundedSortedResult ==
    sop = "returned" =>
        /\ Len(filtered_indices) = Len(filtered_distances)
        /\ Len(filtered_indices) <= Min(k, ntotal(index))
        /\ NonDecreasing(filtered_distances)
        /\ \A i \in 1..Len(filtered_indices) :
              /\ filtered_indices[i] \in 0..(ntotal(index) - 1)
              /\ filtered_distances[i] = L2(index[filtered_indices[i] + 1], query_embedding)

\* the thresholded path returns k results of different distance although more pass
C5_Witness ==
    /\ sop = "returned" /\ ~NonePasses
    /\ k >= 2 /\ Len(filtered_indices) = k /\ PassingPrefix > k
    /\ filtered_distances[1] < filtered_distances[k]

\* C6: with k = 0 or an index of zero vectors the call returns ([], []) and
\* index.search is not called.
C6_DegenerateEmpty ==
    (sop = "returned" /\ (k = 0 \/ ntotal(index) = 0)) =>
        /\ filtered_indices = <<>>
        /\ filtered_distances = <<>>
        /\ searched = 0

\* k = 0 on an index that holds vectors
C6_Witness ==
    sop = "returned" /\ k = 0 /\ ntotal(index) > 0 /\ filtered_indices = <<>>

(***************************************************************************)
(* Properties of the text pipeline, checked under SpecText                 *)
(***************************************************************************)
\* the paragraphs of a text: its parts between blank-line sequences
Paragraphs(t) == ReSplit("blank", t)

\* a paragraph without whitespace in it, 51 to 1500 characters long
PlainParagraph(para) ==
    /\ Len(para) > MinChunkLen /\ Len(para) <= MaxSectionLen
    /\ \A i \in 1..Len(para) : ~IsSpace(para[i])

\* n > 3 such paragraphs separated by blank lines
ParagraphText(t) ==
    /\ ~Falsy(t)
    /\ Len(Paragraphs(t)) > 3
    /\ \A i \in 1..Len(Paragraphs(t)) : PlainParagraph(Paragraphs(t)[i])

DefaultCall ==
    op = "process" /\ chunk_size = DefaultChunkSize /\ chunk_overlap = DefaultChunkOverlap

\* C1: process_text with default parameters, given n > 3 paragraphs separated
\* by blank lines, each 51 to 1500 characters long and without whitespace
\* inside, returns exactly n chunks, the i-th equal to the i-th paragraph.
C1_ParagraphsBecomeChunks ==
    (DefaultCall /\ ParagraphText(text)) => chunks = Paragraphs(text)

\* number of newline characters in a string
Newlines(t) == Cardinality({i \in 1..Len(t) : t[i] = "\n"})

\* the non-blank text runs that blank-line sequences separate
TextRuns(t) == SelectSeq(Paragraphs(t), LAMBDA para : Len(Strip(para)) > 0)

\* C2: clean_and_normalize_text preserves paragraph boundaries: where blank-line
\* sequences separate non-blank text runs of the input, the output holds a
\* newline between any two consecutive runs.
C2_ParagraphBreaksKept ==
    (op = "clean" /\ ~Falsy(text)) =>
        Newlines(cleaned_text) >= Len(TextRuns(text)) - 1

\* C7: noise floor.  Every chunk process_text returns is longer than 50
\* characters, on the semantic path, after a re-split and on the fallback path.
C7_NoiseFloor ==
    op = "process" => \A i \in 1..Len(chunks) : Len(chunks[i]) > MinChunkLen

\* the semantic path re-split a chunk and dropped a window of 50 characters or less
C7_Witness ==
    /\ op = "process" /\ path = "semantic"
    /\ \E i \in 1..Len(semantic_chunks) :
          LET c == semantic_chunks[i]
              step == chunk_size - chunk_overlap
          IN  /\ Len(c) > chunk_size + ResplitMargin
              /\ \E j \in 0..(Len(c) \div step) :
                    j * step < Len(c) /\ Len(c) - j * step <= MinChunkLen
    /\ Len(chunks) > Len(semantic_chunks)

\* a section that is one unbroken sentence: no newline in it and no ".", "!"
\* or "?" followed by whitespace
SingleSentence(section) ==
    /\ \A i \in 1..Len(section) : section[i] # "\n"
    /\ \A i \in 2..Len(section) : ~(IsTerminal(section[i - 1]) /\ IsSpace(section[i]))

\* C8 as stated: every section semantic_text_splitting returns is at most 1500
\* characters long.
C8_SectionsAtMost1500 ==
    op \in {"split", "process"} =>
        \A i \in 1..Len(semantic_chunks) : Len(semantic_chunks[i]) <= MaxSectionLen

\* C8 amended: every section semantic_text_splitting returns is at most 1500
\* characters long unless it is one unbroken sentence, which is returned whole.
C8_SectionsBoundedOrOneSentence ==
    op \in {"split", "process"} =>
        \A i \in 1..Len(semantic_chunks) :
            Len(semantic_chunks[i]) <= MaxSectionLen \/ SingleSentence(semantic_chunks[i])

\* the splitter returned a group of several sentences filled to the limit and
\* a sentence longer than the limit
C8_Witness ==
    /\ op = "split"
    /\ \E i \in 1..Len(semantic_chunks) :
          Len(semantic_chunks[i]) > MaxSectionLen
    /\ \E i \in 1..Len(semantic_chunks) :
          /\ ~SingleSentence(semantic_chunks[i])
          /\ Len(semantic_chunks[i]) + MinChunkLen > MaxSectionLen

\* s is a subsequence of t: its elements occur in t in the same order
RECURSIVE Subsequence(_, _)
Subsequence(s, t) ==
    IF Len(s) = 0 THEN TRUE
    ELSE IF Len(t) = 0 THEN FALSE
    ELSE IF s[1] = t[1] THEN Subsequence(Tail(s), Tail(t))
    ELSE Subsequence(s, Tail(t))

\* C9: final size bound.  On the semantic path every returned chunk is at most
\* chunk_size + 500 long: a semantic chunk over that length is replaced by
\* pieces of at most chunk_size characters, the others are returned unchanged
\* and in order.  On the fallback path every chunk is at most chunk_size long.
C9_FinalSizeBound ==
    op = "process" =>
        /\ path = "semantic" =>
              /\ \A i \in 1..Len(chunks) :
                    /\ Len(chunks[i]) <= chunk_size + ResplitMargin
                    /\ \/ Len(chunks[i]) <= chunk_size
                       \/ \E j \in 1..Len(semantic_chunks) : semantic_chunks[j] = chunks[i]
              /\ Subsequence(
                    SelectSeq(semantic_chunks,
                              LAMBDA c : Len(c) <= chunk_size + ResplitMargin),
                    chunks)
        /\ path = "fallback" => \A i \in 1..Len(chunks) : Len(chunks[i]) <= chunk_size

\* the semantic path met a chunk over chunk_size + 500 and one under it
C9_Witness ==
    /\ op = "process" /\ path = "semantic"
    /\ \E j \in 1..Len(semantic_chunks) : Len(semantic_chunks[j]) > chunk_size + ResplitMargin
    /\ \E j \in 1..Len(semantic_chunks) :
          /\ Len(semantic_chunks[j]) > chunk_size
          /\ Len(semantic_chunks[j]) <= chunk_size + ResplitMargin

\* C10: with default parameters process_text returns no chunk exactly when the
\* text is None, empty or normalizes to at most 50 characters.
C10_EmptyIffBelowNoiseFloor ==
    DefaultCall =>
        (Len(chunks) = 0 <=> (Falsy(text) \/ Len(cleaned_text) <= MinChunkLen))

\* a text of more than 50 characters that normalizes to 50 and yields no chunk
C10_Witness ==
    /\ DefaultCall /\ ~Falsy(text) /\ Len(text) > MinChunkLen
    /\ Len(cleaned_text) = MinChunkLen /\ Len(chunks) = 0

\* the section the sentence-group stage works on when the whole text is one
\* section: the argument of semantic_text_splitting
StageSection == IF op = "split" THEN text ELSE cleaned_text

\* the text is one section longer than 1500 characters without a newline, so
\* semantic_chunks is the output of the sentence-group stage after the filter
SentenceStageRan ==
    /\ op \in {"split", "process"}
    /\ ~Falsy(StageSection)
    /\ Len(StageSection) > MaxSectionLen
    /\ \A i \in 1..Len(StageSection) : StageSection[i] # "\n"

\* the sentences of a string
Sentences(t) == ReSplit("sent", t)

\* the sentences of the chunks cs, chunk after chunk
RECURSIVE SentencesOfAll(_)
SentencesOfAll(cs) ==
    IF Len(cs) = 0 THEN <<>> ELSE Sentences(cs[1]) \o SentencesOfAll(Tail(cs))

\* no sentence is split and the order is kept: what the chunks hold, sentence by
\* sentence, are sentences of the section in their order, each chunk is its
\* sentences joined by one space, and no sentence longer than 50 is missing
SentencesKeptWhole ==
    /\ Subsequence(SentencesOfAll(semantic_chunks), Sentences(StageSection))
    /\ Subsequence(SelectSeq(Sentences(StageSection), KeepSection),
                   SentencesOfAll(semantic_chunks))
    /\ \A i \in 1..Len(semantic_chunks) :
          semantic_chunks[i] = Join(Sentences(semantic_chunks[i]), <<" ">>)

\* C11 as stated: the sentence-group stage splits no sentence, keeps the order
\* and every chunk of two or more sentences is strictly under 1500 characters
\* long, the joining spaces included.
C11_PackedUnder1500 ==
    SentenceStageRan =>
        /\ SentencesKeptWhole
        /\ \A i \in 1..Len(semantic_chunks) :
              Len(Sentences(semantic_chunks[i])) >= 2
                  => Len(semantic_chunks[i]) < MaxSectionLen

\* C11 amended: the sentence-group stage splits no sentence, keeps the order and
\* every chunk of two or more sentences is at most 1500 characters long (the
\* test of line 70 does not count the space that joins the next sentence).
C11_PackedAtMost1500 ==
    SentenceStageRan =>
        /\ SentencesKeptWhole
        /\ \A i \in 1..Len(semantic_chunks) :
              Len(Sentences(semantic_chunks[i])) >= 2
                  => Len(semantic_chunks[i]) <= MaxSectionLen

\* a chunk of two sentences that is exactly 1500 characters long, after a chunk
\* of one sentence
C11_Witness ==
    /\ SentenceStageRan
    /\ Len(semantic_chunks) >= 2
    /\ \E i \in 1..Len(semantic_chunks) :
          /\ Len(Sentences(semantic_chunks[i])) = 2
          /\ Len(semantic_chunks[i]) = MaxSectionLen

\* the windows t[i : i + size] for i = 0, step, 2 step, ... < len(t) that are
\* longer than 50 characters, by increasing i
WindowsOf(t, size, step) ==
    LET offsets == {i \in 0..(Len(t) - 1) : i % step = 0}
        kept == Ascending({i \in offsets : Min(size, Len(t) - i) > MinChunkLen})
    IN  [j \in 1..Len(kept) |-> Slice(t, kept[j], kept[j] + size)]

\* C12: sliding-window fallback.  When the cascade yields 3 or fewer sections
\* process_text returns exactly the windows of the normalized text of stride
\* chunk_size - chunk_overlap that are longer than 50 characters, in order; for
\* one block of 3000 characters and default parameters these are the 4 windows
\* at offsets 0, 750, 1500 and 2250.
C12_SlidingWindowFallback ==
    (op = "process" /\ ~Falsy(text) /\ Len(semantic_chunks) <= 3) =>
        /\ path = "fallback"
        /\ chunks = WindowsOf(cleaned_text, chunk_size, chunk_size - chunk_overlap)
        /\ (DefaultCall /\ text = Block(3000)) =>
              /\ Len(chunks) = 4
              /\ \A j \in 1..4 :
                    chunks[j] = Slice(cleaned_text, 750 * (j - 1), 750 * (j - 1) + 1000)

\* the block of 3000 characters went down the fallback path
C12_Witness ==
    /\ DefaultCall /\ text = Block(3000) /\ path = "fallback"
    /\ Len(semantic_chunks) = 1 /\ Len(chunks) = 4 /\ Len(chunks[4]) = 750

\* process_text ran with default parameters and took the fallback path on a
\* normalized text longer than 50 characters
DefaultFallback ==
    /\ DefaultCall /\ path = "fallback"
    /\ Len(cleaned_text) > MinChunkLen

\* the offset in the normalized text at which the j-th returned chunk starts
OffsetOf(j) == (j - 1) * (chunk_size - chunk_overlap)

\* C25: in the fallback with default parameters on a normalized text longer
\* than 50 characters, chunk j is the text from offset 750 (j - 1) on, every
\* position of the normalized text lies inside a returned chunk, and a
\* full-sized chunk is followed by a chunk that starts with its last
\* chunk_overlap characters.
C25_FallbackLosesNoText ==
    DefaultFallback =>
        /\ \A j \in 1..Len(chunks) :
              chunks[j] = Slice(cleaned_text, OffsetOf(j), OffsetOf(j) + chunk_size)
        /\ \A pos \in 0..(Len(cleaned_text) - 1) :
              \E j \in 1..Len(chunks) :
                  OffsetOf(j) <= pos /\ pos < OffsetOf(j) + Len(chunks[j])
        /\ \A j \in 1..Len(chunks) :
              Len(chunks[j]) = chunk_size =>
                  /\ j < Len(chunks)
                  /\ Len(chunks[j + 1]) >= chunk_overlap
                  /\ Slice(chunks[j], chunk_size - chunk_overlap, chunk_size)
                        = Slice(chunks[j + 1], 0, chunk_overlap)

\* a fallback whose trailing window of at most 50 characters was dropped,
\* after a full-sized chunk
C25_Witness ==
    /\ DefaultFallback
    /\ Len(chunks) >= 2
    /\ Len(chunks[1]) = chunk_size
    /\ OffsetOf(Len(chunks) + 1) < Len(cleaned_text)
    /\ Len(cleaned_text) - OffsetOf(Len(chunks) + 1) <= MinChunkLen

\* C13: normalizer idempotence.  Normalizing the output of
\* clean_and_normalize_text again returns it unchanged, for every text, the
\* empty one and None included.
C13_NormalizeIdempotent ==
    op = "clean2" => cleaned_text = text

\* a text with whitespace and a dash to normalize was normalized twice
C13_Witness ==
    /\ op = "clean2" /\ Len(text) > MinChunkLen
    /\ \E i \in 1..Len(text) : text[i] = "-"
    /\ \E i \in 1..Len(text) : text[i] = " "
    /\ cleaned_text = text

\* C19: oversampling has no effect.  The call, which searches min(2k, N)
\* neighbours, returns what the same filter and fallback return over the first
\* min(k, N) of them alone, and these are a result of searching min(k, N)
\* neighbours.
C19_OversamplingNoEffect ==
    sop = "returned" =>
        LET n == Min(Min(k, ntotal(index)), Len(raw_indices))
            nearest == SubSeq(raw_indices, 1, n)
        IN  /\ <<filtered_indices, filtered_distances>> =
                  FilterResults(nearest, SubSeq(raw_distances, 1, n), k, distance_threshold)
            /\ n >= 1 => nearest \in IndexSearch(index, query_embedding, n)

\* more than k neighbours were searched, some over the threshold, and fewer
\* than k results came back
C19_Witness ==
    /\ sop = "returned" /\ k >= 1
    /\ Len(raw_indices) > k
    /\ ~NonePasses /\ PassingPrefix < k
    /\ Len(filtered_indices) = PassingPrefix

(***************************************************************************)
(* Properties of create_faiss_index, checked under SpecBuild               *)
(***************************************************************************)
\* the embeddings collected so far do not all share one dimension
MixedDimensions == Cardinality(Dimensions(embeddings)) > 1

\* C14: embeddings that do not all share one dimension never reach an index:
\* while they are being collected and afterwards nothing has been added, no
\* index has been returned and no search has run, and once every chunk is
\* embedded the call ends by raising the array conversion's ValueError.
C14_DimensionMismatch ==
    MixedDimensions =>
        /\ b_pc \in {"called", "raised"}
        /\ b_added = 0
        /\ index = <<>>
        /\ sop = "none"
        /\ (b_pc = "raised" /\ Len(embeddings) = Len(b_chunks))
              => b_error = "ValueError"

\* a build that embedded every chunk and was rejected for its dimensions
C14_Witness ==
    /\ MixedDimensions
    /\ Len(embeddings) = Len(b_chunks)
    /\ b_pc = "raised" /\ b_error = "ValueError"

\* the positions of the gateway calls that raised
FailedCalls == {j \in 1..Len(gateway_calls) : ~gateway_calls[j].result.ok}

\* C15: the gateway is called with the chunks in chunk order, each at most
\* once and each exactly once when the index is returned; a call that fails
\* is the last call made, its exception leaves create_faiss_index, and no
\* index is returned and no vector added.
C15_GatewayFailure ==
    /\ Len(gateway_calls) <= Len(b_chunks)
    /\ \A j \in 1..Len(gateway_calls) : gateway_calls[j].text = b_chunks[j]
    /\ b_pc = "returned" => Len(gateway_calls) = Len(b_chunks)
    /\ FailedCalls # {} =>
          /\ FailedCalls = {Len(gateway_calls)}
          /\ b_pc = "raised" /\ b_error = "GatewayError"
          /\ index = <<>> /\ b_added = 0 /\ sop = "none"

\* the gateway failed on a chunk that is neither the first nor the last
C15_Witness ==
    /\ b_pc = "raised" /\ b_error = "GatewayError"
    /\ Len(gateway_calls) >= 2
    /\ Len(gateway_calls) < Len(b_chunks)

\* C16: the returned index holds one vector per chunk, row i being what the
\* gateway answered for chunk i, and a search of it returns ordinals of
\* 0..N-1, none of them twice.
C16_OrdinalJoinKey ==
    b_pc = "returned" =>
        LET N == Len(b_chunks)
        IN  /\ ntotal(index) = N /\ b_added = N
            /\ \A i \in 1..N :
                  /\ gateway_calls[i].text = b_chunks[i]
                  /\ gateway_calls[i].result.ok
                  /\ index[i] = gateway_calls[i].result.embedding
            /\ sop = "returned" =>
                  /\ \A j \in 1..Len(filtered_indices) :
                        filtered_indices[j] \in 0..(N - 1)
                  /\ \A i, j \in 1..Len(filtered_indices) :
                        filtered_indices[i] = filtered_indices[j] => i = j

\* a built index whose rows differ was searched and gave several ordinals
C16_Witness ==
    /\ b_pc = "returned" /\ sop = "returned"
    /\ Len(b_chunks) >= 2
    /\ index[1] # index[2]
    /\ Len(filtered_indices) >= 2

(***************************************************************************)
(* Properties of database.py, checked under SpecDb                         *)
(***************************************************************************)
\* the call that just ended is a get_website_chunks that returned what it
\* read, for a website whose last committed store_website_chunks returned
\* normally
ReadAfterStore ==
    /\ db_call.fn = "get_website_chunks" /\ ~db_call.raised
    /\ last_stored[db_call.website_id].stored

\* C17: after store_website_chunks(website_id, chunks) succeeded, a
\* get_website_chunks(website_id) that reads the table returns exactly the
\* chunk list of that store, in order, with no chunk of an earlier or another
\* store.  The code does not do this when two stores for the website overlap.
C17_RoundTrip ==
    ReadAfterStore => db_call.result = last_stored[db_call.website_id].cur

\* this step ends a call of store_website_chunks that had done its DELETE
StoreEnds(t) == store_txn[t].open /\ ~store_txn'[t].open

\* the rows store_website_chunks(x.website_id, x.chunks) inserts
NewRows(x) ==
    [i \in 1..Len(x.chunks) |->
        [website_id |-> x.website_id, chunk_index |-> i - 1,
         chunk_text |-> x.chunks[i]]]

\* C21 as stated: a store_website_chunks that raises after its DELETE leaves
\* the committed chunks exactly as they were.
C21_RaisedStoreChangesNothing ==
    [][\A t \in Threads :
          (StoreEnds(t) /\ db_call'.raised) => content_chunks' = content_chunks]_vars

\* C21 amended: store_website_chunks is all-or-nothing.  A call that ends
\* leaves the committed chunks either as they were or with all of its rows in
\* the place of the rows it deleted; a call that returns normally has done the
\* latter; a call that raises after a rollback has done the former, and one
\* that raises otherwise had its commit applied by the server.  Nothing else
\* changes the table, so no committed state has the old chunks gone and only
\* part of the new ones stored.
C21_StoreAllOrNothing ==
    [][IF \E t \in Threads : StoreEnds(t)
       THEN \A t \in Threads :
               StoreEnds(t) =>
                   LET all == Without(content_chunks, store_txn[t].deleted)
                                  \o NewRows(store_txn[t])
                   IN  /\ db_call'.fn = "store_website_chunks"
                       /\ content_chunks' = IF db_call'.committed THEN all
                                            ELSE content_chunks
                       /\ ~db_call'.raised => db_call'.committed
       ELSE content_chunks' = content_chunks]_vars

\* a store failed after its DELETE and two of its three inserts, was rolled
\* back, and the table still holds the one, different chunk stored before
C21_Witness ==
    /\ db_call.fn = "store_website_chunks"
    /\ db_call.raised /\ ~db_call.committed
    /\ Len(db_call.result) = 2
    /\ \A t \in Threads : ~store_txn[t].open
    /\ Len(content_chunks) = 1
    /\ content_chunks[1].chunk_text # db_call.result[1]
    /\ last_stored[db_call.website_id].stored

\* the positions of e_log that are connection attempts
Connects == {i \in 1..Len(e_log) : e_log[i].ev = "connect"}

\* the number of connection attempts among the first i entries of e_log
ConnectsUpTo(i) == Cardinality({j \in Connects : j <= i})

\* C20: get_engine connects at most max_retries times; a successful attempt
\* is the last thing it does and it returns; it sleeps retry_delay seconds
\* after a failed attempt exactly when another attempt follows; an
\* OperationalError on the last attempt, and any other exception on any
\* attempt, is raised at once.
C20_ConnectionRetry ==
    /\ Cardinality(Connects) <= max_retries
    /\ e_pc = "returned" <=>
          (e_log # <<>> /\ e_log[Len(e_log)].outcome = "ok")
    /\ \A i \in 1..Len(e_log) :
          LET e == e_log[i]
          IN  /\ e.outcome = "ok" => i = Len(e_log)
              /\ e.ev = "sleep" =>
                    /\ e.secs = retry_delay
                    /\ i > 1 /\ e_log[i - 1].outcome = "OperationalError"
                    /\ IF i < Len(e_log) THEN e_log[i + 1].ev = "connect"
                       ELSE e_pc = "connecting"
              /\ (e.outcome = "OperationalError" /\ ConnectsUpTo(i) < max_retries)
                    => (i < Len(e_log) /\ e_log[i + 1].ev = "sleep")
              /\ (e.outcome = "OperationalError" /\ ConnectsUpTo(i) = max_retries)
                    => (i = Len(e_log) /\ e_pc = "raised"
                        /\ e_error = "OperationalError")
              /\ e.outcome = "OtherError"
                    => (i = Len(e_log) /\ e_pc = "raised" /\ e_error = "OtherError")

\* every attempt failed with OperationalError and the last one was raised
C20_Witness ==
    /\ Cardinality(Connects) = max_retries
    /\ Len(e_log) = 2 * max_retries - 1
    /\ e_pc = "raised" /\ e_error = "OperationalError"

(***************************************************************************)
(* Properties of the app session, checked under Spec                       *)
(***************************************************************************)
\* a ready chatbot has an index, chunks, and one index row per chunk
ReadyMeansBuilt ==
    chatbot_ready =>
        /\ st_index.built
        /\ st_chunks # <<>>
        /\ ntotal(st_index.rows) = Len(st_chunks)

\* index and chunks change only in the step of a Create Chatbot run that
\* built an index for the run's chunks, or in a reset, which clears both
ReplacedTogether ==
    (st_index' # st_index \/ st_chunks' # st_chunks) =>
        \/ /\ run.pc = "create_faiss_index" /\ run'.pc = "idle"
           /\ st_index'.built /\ st_chunks' = run.chunks /\ st_chunks' # <<>>
           /\ ntotal(st_index'.rows) = Len(st_chunks')
           /\ chatbot_ready'
        \/ /\ app_event' = "reset"
           /\ st_index' = NoIndex /\ st_chunks' = <<>>

\* a run in which the build failed leaves index, chunks and chatbot_ready
FailedBuildKeepsState ==
    (run.pc = "create_faiss_index" /\ app_event' = "build_failed") =>
        UNCHANGED <<st_index, st_chunks, chatbot_ready>>

\* C18: in every reachable state chatbot_ready implies a non-null index,
\* non-empty chunks and index size = len(chunks); index and chunks are only
\* replaced together, by a successful build or by the reset; a failed build
\* leaves index, chunks and chatbot_ready unchanged.
\* The code does not keep index and chunks together: they are two
\* assignments (87-88, 135-136, 366-367), and a run stopped between them
\* leaves the new index with the old chunks while chatbot_ready is still
\* True from the chatbot before.
C18_ReadyImpliesIndexOfChunks ==
    /\ []ReadyMeansBuilt
    /\ [][ReplacedTogether /\ FailedBuildKeepsState]_vars

\* this step is the first part of a run of the Generate Response handler,
\* lines 221-230: the run goes on to generate, is stopped, or ends with an
\* exception nothing caught
AskStep ==
    /\ run.pc = "idle"
    /\ \/ run'.pc = "generate"
       \/ /\ app_event' \in {"generate_stopped", "exception"}
          /\ sessionState' # sessionState

\* this step is the second part of a run of the handler, lines 232-288
ReplyStep == run.pc = "generate" /\ run'.pc = "idle"

\* what the step appended to chat_history
Appended == SubSeq(chat_history', Len(chat_history) + 1, Len(chat_history'))

\* in this step the browser session called add_chat_message: every call
\* follows an append to chat_history (225-227, 278-281)
WriteStep == msg_call' # NoWrite /\ chat_history' # chat_history

\* the row the call of this step was given, flushed at the instant now
Written(now) ==
    [session_id |-> chat_session_id, role |-> msg_call'.role,
     content |-> chat_history'[Len(chat_history')][2], created_at |-> now]

\* the table has gained the row of the call of this step
RowStored == \E now \in Instants : chat_messages' = Append(chat_messages, Written(now))

\* the call of a step does not raise to the handler and no run ends with an
\* exception of it; the message was appended to chat_history before the
\* call, and the table has gained the row or is as it was
NeverPropagates ==
    /\ WriteStep =>
          /\ ~msg_call'.raised
          /\ app_event' # "exception"
          /\ msg_call'.role \in {"user", "ai"}
          /\ chat_history' =
                 Append(chat_history,
                        <<msg_call'.role, chat_history'[Len(chat_history')][2]>>)
          /\ chat_messages' = chat_messages \/ RowStored
          /\ (chat_messages' # chat_messages) <=> msg_call'.committed
          /\ ~msg_call'.error => msg_call'.committed
    /\ (chat_messages' # chat_messages) => (WriteStep \/ others' = others + 1)

\* the flow goes on after the call, whatever became of the row, unless the
\* user stops the run: after the write of the question to the spinner of
\* line 230 and on to generate; after the write of the reply to
\* response_generated = True and the rerun
FlowContinues ==
    WriteStep =>
        /\ msg_call'.role = "user" =>
              /\ run.pc = "idle"
              /\ run'.pc = "generate" \/ app_event' = "generate_stopped"
              /\ chat_history'[Len(chat_history')][2] = current_query
              /\ UNCHANGED <<chatbot_ready, chat_session_id, current_query,
                             response_generated>>
        /\ msg_call'.role = "ai" =>
              /\ run.pc = "generate" /\ run'.pc = "idle"
              /\ \/ response_generated' /\ app_event' = "generated"
                 \/ /\ app_event' = "generate_stopped"
                    /\ UNCHANGED response_generated
              /\ UNCHANGED <<chatbot_ready, chat_session_id, current_query>>

\* a SQLAlchemyError in the call of a step leaves the table as it was
ErrorLeavesTable ==
    (WriteStep /\ msg_call'.error) => chat_messages' = chat_messages

\* a SQLAlchemyError that came up before the commit took effect leaves the
\* table as it was; after a commit that took effect the row is stored
RolledBackOrCommitted ==
    (WriteStep /\ msg_call'.error) =>
        IF msg_call'.committed
        THEN RowStored
        ELSE chat_messages' = chat_messages

\* C22 as stated: add_chat_message never propagates a database error: on
\* SQLAlchemyError it rolls back, leaves the stored messages unchanged and
\* returns normally, so that the Generate Response flow continues.  The
\* stored messages are not always unchanged: an error of a commit that the
\* server had applied is swallowed like any other, and the row is stored.
C22_ErrorLeavesMessagesUnchanged ==
    [][NeverPropagates /\ ErrorLeavesTable /\ FlowContinues]_vars

\* C22: add_chat_message never propagates a database error.  On
\* SQLAlchemyError it rolls back and returns normally; the stored messages
\* are unchanged unless the error came from a commit that had taken effect,
\* and then the message is stored.  Either way the Generate Response flow
\* continues as it does after a call without an error: after the write of
\* the question to the generation, after the write of the reply to
\* response_generated = True, unless the user stops the run; and
\* chat_history holds every message the handler appended, stored or not.
C22_AddChatMessageSwallowsErrors ==
    [][NeverPropagates /\ RolledBackOrCommitted /\ FlowContinues]_vars

\* the write of the reply ran into a SQLAlchemyError and was rolled back: the
\* reply is in chat_history, response_generated is set, and the table holds
\* fewer messages of the chat session than chat_history
C22_Witness ==
    /\ msg_call = [role |-> "ai", error |-> TRUE, committed |-> FALSE,
                   raised |-> FALSE]
    /\ app_event = "generated" /\ response_generated
    /\ chat_history # <<>>
    /\ chat_history[Len(chat_history)][1] = "ai"
    /\ chat_session_id # 0
    /\ Cardinality(MessagesOf(chat_messages, chat_session_id)) < Len(chat_history)

\* the user message appears at most once for the submission: the handler
\* does not store it in a chat session in which it has stored it, so that no
\* history get_chat_history loads into chat_history shows it twice
QuestionOnce ==
    (AskStep /\ msg_call'.role = "user" /\ msg_call'.committed) =>
        chat_session_id \notin submission.stored

\* when the generation failed with an exception and the user clicks again,
\* the user message is not appended a second time
ClickAgainAddsNothing ==
    (AskStep /\ app_event = "generate_failed") => Appended = <<>>

\* at most one reply: once a reply was appended, no run of the handler adds
\* anything
NothingAfterReply ==
    (submission.replied /\ (AskStep \/ ReplyStep)) =>
        chat_history' = chat_history

\* response_generated is cleared only when the query text changes
ClearedByNewText ==
    (response_generated /\ ~response_generated') =>
        current_query' # current_query

\* C23: at most one generation per submitted query.  For any sequence of
\* Generate Response clicks without a change of the query text at most one
\* AI reply is appended to chat_history and the user message appears at most
\* once for that submission; after a generation that failed with an
\* exception a further click does not append it a second time, and once a
\* reply was produced further clicks add nothing until the query text
\* changes.  The code does not keep to this: a run stopped between the
\* append of the reply (278) and response_generated = True (284) leaves the
\* reply without the mark, and the next click appends the question and a
\* second reply; and line 223 looks at the last entry only, so after a
\* session switch away and back the next click appends the question again
\* to a chat that already holds it.
C23_OneGenerationPerQuery ==
    [][QuestionOnce /\ ClickAgainAddsNothing /\ NothingAfterReply
       /\ ClearedByNewText]_vars

\* the rows of the table ws for url
RowsOf(ws, url) == {i \in 1..Len(ws) : ws[i].url = url}

\* this step ends a run that created a chatbot from a scraped page for a url
\* that had no row when the run began
CreatedForNewUrl ==
    /\ run.pc = "create_faiss_index" /\ run.created
    /\ app_event' = "created"

\* C24: after the app created a chatbot for a url that had no website record,
\* the row of that url holds the scraped content passed to
\* get_or_create_website(url, website_content), and it is the only row of
\* that url.  The code does not do this: the handler has already created the
\* row, without content, at line 122, so the call of line 78 finds it and
\* stores nothing.
C24_CreatedRowHoldsContent ==
    [][CreatedForNewUrl =>
          /\ Cardinality(RowsOf(websites', website_url')) = 1
          /\ websites'[website_id'].url = website_url'
          /\ websites'[website_id'].content = PageOf(website_url')]_vars

====
